---- MODULE Spec2Model ----
(***************************************************************************)
(* Availability ingestion pipeline of binance-futures-availability:        *)
(*   - AvailabilityDatabase (database/availability_db.py, schema.py):      *)
(*     the daily_availability table keyed by (date, symbol), its           *)
(*     INSERT OR REPLACE write paths and the daily_symbol_counts refresh.  *)
(* Dates are day ordinals (date + timedelta(days=1) is d + 1).             *)
(* The last_updated column of daily_symbol_counts (CURRENT_TIMESTAMP) is   *)
(* not represented: no operation reads it.                                 *)
(***************************************************************************)
EXTENDS Integers, Sequences, FiniteSets, TLC

\* ------------------------------------------------------------------ bounds
NumDates == 3
MaxBatch == 2
MaxWorkers == 2
MaxRuns == 2

\* ------------------------------------------------------------- data model
\* Python None / SQL NULL in a nullable integer or timestamp column.
NULL == -1

Dates == 1..NumDates

\* The symbol list the remote listing yields (load_discovered_symbols).
DiscoveredSymbols == <<"BTCUSDT", "ETHUSDT">>

\* The symbols of a re-probed lookback window.
WindowSymbols == <<"BTCUSDT", "ETHUSDT", "SOLUSDT">>

\* BatchProber.__init__: max_workers = 10
DefaultMaxWorkers == 10

Range(s) == {s[i] : i \in DOMAIN s}

\* The characters of a symbol, as Unicode code points.  The two symbols
\* with non-ASCII characters are named by their code points: U+5E01 U+5B89
\* U+4EBA U+751F followed by USDT, and U+1F680 followed by USDT.
CodePoints(symbol) ==
    CASE symbol = "BTCUSDT" -> <<66, 84, 67, 85, 83, 68, 84>>
      [] symbol = "ETHUSDT" -> <<69, 84, 72, 85, 83, 68, 84>>
      [] symbol = "SOLUSDT" -> <<83, 79, 76, 85, 83, 68, 84>>
      [] symbol = "BTC/USDT" -> <<66, 84, 67, 47, 85, 83, 68, 84>>
      [] symbol = "U5E01U5B89U4EBAU751FUSDT" ->
            <<24065, 23433, 20154, 29983, 85, 83, 68, 84>>
      [] symbol = "U1F680USDT" -> <<128640, 85, 83, 68, 84>>

\* str.encode('utf-8') of one code point.
Utf8(cp) ==
    IF cp < 128 THEN <<cp>>
    ELSE IF cp < 2048 THEN <<192 + (cp \div 64), 128 + (cp % 64)>>
    ELSE IF cp < 65536
         THEN <<224 + (cp \div 4096), 128 + ((cp \div 64) % 64), 128 + (cp % 64)>>
    ELSE <<240 + (cp \div 262144), 128 + ((cp \div 4096) % 64),
           128 + ((cp \div 64) % 64), 128 + (cp % 64)>>

RECURSIVE Utf8Bytes(_)
Utf8Bytes(cps) ==
    IF cps = <<>> THEN <<>> ELSE Utf8(Head(cps)) \o Utf8Bytes(Tail(cps))

\* Variant: a quote() that leaves every ASCII byte as it is.
AsciiSafe(byte) == byte < 128

\* The bytes quote() never escapes: ASCII letters, digits and "_.-~"; with
\* safe='' nothing else is left as it is.
Unreserved(byte) ==
    byte \in (65..90) \cup (97..122) \cup (48..57) \cup {45, 46, 95, 126}

\* An upper-case hexadecimal digit, as a character.
HexDigit(n) == IF n < 10 THEN 48 + n ELSE 55 + n

\* One byte in the quoted text: itself, or '%' and two hexadecimal digits.
QuoteByte(byte) ==
    IF Unreserved(byte) THEN <<byte>>
    ELSE <<37, HexDigit(byte \div 16), HexDigit(byte % 16)>>

RECURSIVE QuoteBytes(_)
QuoteBytes(bytes) ==
    IF bytes = <<>> THEN <<>> ELSE QuoteByte(Head(bytes)) \o QuoteBytes(Tail(bytes))

\* Every symbol that is probed or stored.
KnownSymbols ==
    {"BTCUSDT", "ETHUSDT", "SOLUSDT", "BTC/USDT", "U5E01U5B89U4EBAU751FUSDT",
     "U1F680USDT"}

\* urllib.parse.quote(symbol, safe=''): the symbol is encoded as UTF-8 and
\* each byte is quoted; the result is a sequence of ASCII characters.
Quoted == [symbol \in KnownSymbols |-> QuoteBytes(Utf8Bytes(CodePoints(symbol)))]

Quote(symbol) == Quoted[symbol]

\* The URL template of check_symbol_availability, built from the encoded
\* symbol and the date.
ProbeUrl(symbol, date) == <<"klines", Quote(symbol), "1m", Quote(symbol), date>>

\* ProbeResult of a 200 response: available with the size the headers gave.
Found(symbol, date, size, ts) ==
    [date |-> date, symbol |-> symbol, available |-> TRUE,
     file_size_bytes |-> size, last_modified |-> NULL,
     url |-> ProbeUrl(symbol, date), status_code |-> 200,
     probe_timestamp |-> ts]

\* ProbeResult of a 404 response: unavailable, size and last_modified None.
NotFound(symbol, date, ts) ==
    [date |-> date, symbol |-> symbol, available |-> FALSE,
     file_size_bytes |-> NULL, last_modified |-> NULL,
     url |-> ProbeUrl(symbol, date), status_code |-> 404,
     probe_timestamp |-> ts]

\* The records callers hand to the store for one key: a 404 probed at time 1
\* and a later probe, at time 2, that found the file (9 MB).
RecordsFor(symbol, date) ==
    {NotFound(symbol, date, 1), Found(symbol, date, 9, 2)}

\* Keys of the free-form store calls: one symbol on two dates, and two
\* symbols on one date.
StoreKeys == {<<1, "BTCUSDT">>, <<2, "BTCUSDT">>, <<2, "ETHUSDT">>}

Records == UNION {RecordsFor(k[2], k[1]) : k \in StoreKeys}

SeqsUpTo(S, n) == UNION {[1..k -> S] : k \in 0..n}

Batches == SeqsUpTo(Records, MaxBatch)

\* PRIMARY KEY (date, symbol) of daily_availability.
Key(r) == <<r.date, r.symbol>>

VARIABLES
    daily_availability,         \* rows of the base table (a set of records)
    daily_symbol_counts,        \* rows of the aggregate table
    skip_materialized_refresh,  \* AvailabilityDatabase.skip_materialized_refresh
    catalog,                    \* the tables and indexes of the database file
    lastCall,                   \* history: the last store call and what it wrote
    overlap,                    \* history: the two passes of a re-probed window
    checkpoint,                 \* content of the checkpoint file, NULL when absent
    pc,                         \* position of the orchestrating (main) thread
    run,                        \* arguments and history of the current run
    prior,                      \* history: how the previous run ended
    max_workers,                \* BatchProber.max_workers
    symbols,                    \* list probe_all_symbols fans out over
    current_date,               \* probe_date_range: current_date
    all_results,                \* probe_date_range: all_results
    futures,                    \* tasks handed to the ThreadPoolExecutor
    results,                    \* probe_all_symbols: results
    failed                      \* probe_all_symbols: failed

storeVars ==
    <<daily_availability, daily_symbol_counts, skip_materialized_refresh, catalog,
      lastCall>>

poolVars == <<max_workers, symbols, futures, results, failed>>

runVars == <<checkpoint, pc, run, prior, current_date, all_results>>

vars == <<storeVars, overlap, runVars, poolVars>>

\* ----------------------------------------------------------------- schema
BaseColumns ==
    <<"date", "symbol", "available", "file_size_bytes", "last_modified", "url",
      "status_code", "probe_timestamp">>

\* volume_columns of _migrate_add_volume_columns, in the order of the list.
VolumeColumns ==
    <<"quote_volume_usdt", "trade_count", "volume_base", "taker_buy_volume_base",
      "taker_buy_quote_volume_usdt", "open_price", "high_price", "low_price",
      "close_price">>

CountColumns ==
    <<"date", "total_symbols", "available_symbols", "unavailable_symbols",
      "last_updated">>

\* dict.get(key): None when the dict has no such key.
Get(r, key) == IF key \in DOMAIN r THEN r[key] ELSE NULL

\* The parameter tuple the insert statements bind for a record: the eight
\* probe columns by r[...] and the nine volume columns by r.get(...).  A row
\* is held with its eight probe columns and those volume columns that are
\* not NULL; a volume column a row does not hold reads NULL.  A record of
\* exactly the eight probe columns is such a row as it stands.
BaseKeys == Range(BaseColumns)

VolumeKeys == Range(VolumeColumns)

RowOf(r) ==
    IF DOMAIN r = BaseKeys THEN r
    ELSE [k \in BaseKeys \cup {c \in VolumeKeys : Get(r, c) # NULL} |-> r[k]]

\* A database file that was just created: no table, no index.  A database
\* is its catalog, the rows of each table, and whether a statement raised.
NoDatabase ==
    [catalog |-> <<>>,
     rows |-> [daily_availability |-> {}, daily_symbol_counts |-> {}],
     raised |-> FALSE]

Exists(db, kind, name) ==
    \E k \in DOMAIN db.catalog :
        db.catalog[k].kind = kind /\ db.catalog[k].name = name

\* Variant: CREATE TABLE without IF NOT EXISTS raises on an existing table.
CreateTable(db, name, columns) ==
    IF db.raised THEN db
    ELSE IF Exists(db, "table", name) THEN [db EXCEPT !.raised = TRUE]
    ELSE [db EXCEPT
            !.catalog = Append(@, [kind |-> "table", name |-> name,
                                   columns |-> columns]),
            !.rows[name] = {}]

\* CREATE TABLE IF NOT EXISTS name (columns): nothing happens when a table
\* of that name exists, else an empty table is created.
CreateTableIfNotExists(db, name, columns) ==
    IF db.raised \/ Exists(db, "table", name) THEN db
    ELSE [db EXCEPT
            !.catalog = Append(@, [kind |-> "table", name |-> name,
                                   columns |-> columns]),
            !.rows[name] = {}]

\* CREATE INDEX IF NOT EXISTS name ON daily_availability(columns)
CreateIndexIfNotExists(db, name, columns) ==
    IF db.raised \/ Exists(db, "index", name) THEN db
    ELSE [db EXCEPT
            !.catalog = Append(@, [kind |-> "index", name |-> name,
                                   columns |-> columns])]

\* ALTER TABLE daily_availability ADD COLUMN column: present rows read NULL
\* in the new column, which is how a row without a volume is held here.
AddColumn(db, column) ==
    [db EXCEPT !.catalog =
        [k \in DOMAIN @ |->
            IF @[k].kind = "table" /\ @[k].name = "daily_availability"
            THEN [@[k] EXCEPT !.columns = Append(@, column)]
            ELSE @[k]]]

\* existing_columns: the column names information_schema lists for the table.
ExistingColumns(db) ==
    UNION {{db.catalog[k].columns[c] : c \in DOMAIN db.catalog[k].columns} :
            k \in {j \in DOMAIN db.catalog :
                      /\ db.catalog[j].kind = "table"
                      /\ db.catalog[j].name = "daily_availability"}}

\* The loop of _migrate_add_volume_columns from its n-th column on: a
\* column is added only if it was not among the existing ones.
RECURSIVE AddMissing(_, _, _)
AddMissing(db, existing, n) ==
    IF n > Len(VolumeColumns) THEN db
    ELSE AddMissing(IF VolumeColumns[n] \in existing THEN db
                    ELSE AddColumn(db, VolumeColumns[n]),
                    existing, n + 1)

_migrate_add_volume_columns(db) ==
    IF db.raised THEN db ELSE AddMissing(db, ExistingColumns(db), 1)

\* create_schema(conn): the base table, the migration, three indexes, the
\* aggregate table, in this order.
create_schema(db) ==
    LET s1 == CreateTableIfNotExists(db, "daily_availability",
                                     BaseColumns \o VolumeColumns)
        s2 == _migrate_add_volume_columns(s1)
        s3 == CreateIndexIfNotExists(s2, "idx_symbol_date", <<"symbol", "date">>)
        s4 == CreateIndexIfNotExists(s3, "idx_available_date", <<"available", "date">>)
        s5 == CreateIndexIfNotExists(s4, "idx_quote_volume_date",
                                     <<"quote_volume_usdt", "date">>)
    IN  CreateTableIfNotExists(s5, "daily_symbol_counts", CountColumns)

\* ------------------------------------------------------------------ store
\* Variant: INSERT OR IGNORE, the row already stored under the key is kept.
InsertOrIgnore(table, r) ==
    IF \E x \in table : Key(x) = Key(r) THEN table ELSE table \cup {r}

\* Variant: an upsert that keeps the volume columns of the row it replaces
\* when the new row does not hold them.
UpsertKeepingVolume(table, r) ==
    {x \in table : Key(x) # Key(r)} \cup
    {[k \in DOMAIN r \cup
             UNION {DOMAIN x : x \in {y \in table : Key(y) = Key(r)}} |->
         IF k \in DOMAIN r THEN r[k]
         ELSE (CHOOSE x \in table : Key(x) = Key(r))[k]]}

\* Variant: a plain INSERT into a table without the primary key.
InsertNoKey(table, r) == table \cup {r}

\* One INSERT OR REPLACE INTO daily_availability: the row holding the same
\* primary key, if any, is removed and the new row is stored.
InsertOrReplace(table, r) ==
    {x \in table : Key(x) # Key(r)} \cup {r}

\* Variant: conn.execute, which binds the first parameter tuple only.
ExecuteFirst(table, records) ==
    IF records = <<>> THEN table ELSE InsertOrReplace(table, Head(records))

\* conn.executemany: the statement is run once per record, in list order.
RECURSIVE ExecuteMany(_, _)
ExecuteMany(table, records) ==
    IF records = <<>> THEN table
    ELSE ExecuteMany(InsertOrReplace(table, RowOf(Head(records))), Tail(records))

\* Variant: the SELECT has WHERE available, dates with no file get no group.
GroupAvailableByDate(table) ==
    {[date |-> d,
      total_symbols |-> Cardinality({x \in table : x.date = d}),
      available_symbols |-> Cardinality({x \in table : x.date = d /\ x.available}),
      unavailable_symbols |-> Cardinality({x \in table : x.date = d /\ ~x.available})]
     : d \in {x.date : x \in {y \in table : y.available}}}

\* SELECT date, COUNT(*), SUM(available), SUM(NOT available) ... GROUP BY date
GroupByDate(table) ==
    {[date |-> d,
      total_symbols |-> Cardinality({x \in table : x.date = d}),
      available_symbols |-> Cardinality({x \in table : x.date = d /\ x.available}),
      unavailable_symbols |-> Cardinality({x \in table : x.date = d /\ ~x.available})]
     : d \in {x.date : x \in table}}

\* Variant: INSERT OR IGNORE INTO daily_symbol_counts, existing dates are kept.
RefreshKeepExisting(table, counts) ==
    counts \cup {g \in GroupByDate(table) : g.date \notin {c.date : c \in counts}}

\* INSERT OR REPLACE INTO daily_symbol_counts SELECT ... (date is its key).
RefreshMaterializedViews(table, counts) ==
    LET fresh == GroupByDate(table)
    IN  {c \in counts : c.date \notin {g.date : g \in fresh}} \cup fresh

\* What a call is expected to leave: for each key, the last record given.
LastPerKey(records) ==
    {records[i] : i \in {j \in DOMAIN records :
        \A k \in DOMAIN records : k > j => Key(records[k]) # Key(records[j])}}

\* History of a write call on `table`: the rows it must leave, and whether
\* one of its keys held a row with other values before the call.
Written(op, table, records) ==
    [op |-> op, wrote |-> LastPerKey(records),
     overwrote |-> \E x \in table : \E r \in LastPerKey(records) :
                      Key(x) = Key(r) /\ x # r,
     refreshes |-> 0]

\* Variant: an insert_batch that refreshes whatever the flag says.
InsertBatchAlwaysRefreshes(records) ==
    /\ lastCall' = [Written("insert_batch", daily_availability, records) EXCEPT
                      !.refreshes = IF records # <<>> THEN 1 ELSE 0]
    /\ IF records = <<>>
       THEN UNCHANGED <<daily_availability, daily_symbol_counts>>
       ELSE /\ daily_availability' = ExecuteMany(daily_availability, records)
            /\ daily_symbol_counts' =
                 RefreshMaterializedViews(daily_availability', daily_symbol_counts)
    /\ UNCHANGED <<skip_materialized_refresh, catalog>>

\* Variant: no early return, an empty batch goes on to the refresh.
InsertBatchNoEarlyReturn(records) ==
    /\ lastCall' = Written("insert_batch", daily_availability, records)
    /\ daily_availability' = ExecuteMany(daily_availability, records)
    /\ daily_symbol_counts' =
          IF ~skip_materialized_refresh
          THEN RefreshMaterializedViews(daily_availability', daily_symbol_counts)
          ELSE daily_symbol_counts
    /\ UNCHANGED <<skip_materialized_refresh, catalog>>

\* AvailabilityDatabase.insert_batch(records)
insert_batch(records) ==
    /\ lastCall' = [Written("insert_batch", daily_availability, records) EXCEPT
                      !.refreshes = IF records # <<>> /\ ~skip_materialized_refresh
                                    THEN 1 ELSE 0]
    /\ IF records = <<>>
       THEN UNCHANGED <<daily_availability, daily_symbol_counts>>
       ELSE /\ daily_availability' = ExecuteMany(daily_availability, records)
            /\ daily_symbol_counts' =
                 IF ~skip_materialized_refresh
                 THEN RefreshMaterializedViews(daily_availability', daily_symbol_counts)
                 ELSE daily_symbol_counts
    /\ UNCHANGED <<skip_materialized_refresh, catalog>>

\* AvailabilityDatabase.insert_availability(**r)
insert_availability(r) ==
    /\ daily_availability' = InsertOrReplace(daily_availability, RowOf(r))
    /\ lastCall' = Written("insert_availability", daily_availability, <<r>>)
    /\ UNCHANGED <<daily_symbol_counts, skip_materialized_refresh, catalog>>

\* AvailabilityDatabase.refresh_materialized_views()
refresh_materialized_views ==
    /\ daily_symbol_counts' = RefreshMaterializedViews(daily_availability, daily_symbol_counts)
    /\ lastCall' = [Written("refresh_materialized_views", daily_availability, <<>>)
                      EXCEPT !.refreshes = 1]
    /\ UNCHANGED <<daily_availability, skip_materialized_refresh, catalog>>

\* No window has been probed yet.
OverlapInit ==
    overlap = [step |-> 0, start |-> 1, end |-> 1, first |-> {}, second |-> {},
               kind1 |-> "none", kind2 |-> "none"]

\* No error has left probe_date_range.
NoError == [raised |-> FALSE, date |-> NULL, cause |-> <<>>]

\* AvailabilityDatabase(db_path): self.conn = duckdb.connect(...)
Connect == "open"

\* AvailabilityDatabase.close(): if self.conn: self.conn.commit();
\* self.conn.close().  No statement of the store opens a transaction, so every
\* statement was committed when it returned and the commit finds nothing
\* pending.
close(conn) == IF conn = "open" THEN "closed" ELSE conn

\* History of a run: its arguments, the checkpoint file it found, the start
\* it computed, the dates whose batch it began, whether it saved a
\* checkpoint, and where it stopped.
NoRun == [n |-> 0, start_arg |-> 1, end_date |-> 1, resume |-> FALSE,
          found |-> NULL, start_date |-> 1, symbols |-> <<>>,
          callback |-> FALSE, batches |-> <<>>, saved |-> FALSE,
          called |-> <<>>, ended |-> "none", at |-> "idle",
          path |-> "none", before |-> <<{}, {}>>, error |-> NoError,
          conn |-> "none"]

\* BackfillScheduler(): no checkpoint file, no run in progress.
RunInit ==
    /\ checkpoint = NULL
    /\ pc = "idle"
    /\ run = NoRun
    /\ prior = [interrupted |-> FALSE, start_arg |-> 1, end_date |-> 1,
                killed |-> FALSE]
    /\ current_date = 1
    /\ all_results = <<>>

\* BatchProber(max_workers): nothing submitted.
PoolInit(workers) ==
    /\ max_workers \in workers
    /\ symbols = <<>>
    /\ futures = <<>>
    /\ results = <<>>
    /\ failed = <<>>

\* AvailabilityDatabase(db_path, skip_materialized_refresh) on a fresh file:
\* create_schema leaves both tables empty.
StoreInit(skips) ==
    /\ daily_availability = create_schema(NoDatabase).rows.daily_availability
    /\ daily_symbol_counts = create_schema(NoDatabase).rows.daily_symbol_counts
    /\ catalog = create_schema(NoDatabase).catalog
    /\ skip_materialized_refresh \in skips
    /\ lastCall = Written("none", {}, <<>>)

InsertBatchCall ==
    /\ \E records \in Batches : insert_batch(records)
    /\ UNCHANGED <<overlap, runVars, poolVars>>

InsertAvailabilityCall ==
    /\ \E r \in Records : insert_availability(r)
    /\ UNCHANGED <<overlap, runVars, poolVars>>

RefreshCall ==
    /\ refresh_materialized_views
    /\ UNCHANGED <<overlap, runVars, poolVars>>

StoreNext == InsertBatchCall \/ InsertAvailabilityCall \/ RefreshCall

\* A fresh store; no orchestrator is running.
InitStore ==
    /\ StoreInit(BOOLEAN)
    /\ OverlapInit
    /\ RunInit
    /\ PoolInit({DefaultMaxWorkers})

SpecStore == InitStore /\ [][StoreNext]_vars

\* ------------------------------------------------------ reopening a store
\* AvailabilityDatabase(db_path) on a file that exists: duckdb.connect, then
\* create_schema(self.conn) on what the file holds.
CreateSchemaCall ==
    LET db == [catalog |-> catalog,
               rows |-> [daily_availability |-> daily_availability,
                         daily_symbol_counts |-> daily_symbol_counts],
               raised |-> FALSE]
        out == create_schema(db)
    IN  /\ catalog' = out.catalog
        /\ daily_availability' = out.rows.daily_availability
        /\ daily_symbol_counts' = out.rows.daily_symbol_counts
        /\ lastCall' = [op |-> "create_schema", wrote |-> {}, overwrote |-> FALSE,
                        raised |-> out.raised,
                        before |-> <<daily_availability, daily_symbol_counts>>]
        /\ UNCHANGED <<skip_materialized_refresh, overlap, runVars, poolVars>>

SchemaNext == CreateSchemaCall \/ InsertAvailabilityCall \/ RefreshCall

SpecSchema == InitStore /\ [][SchemaNext]_vars

\* -------------------------------------------------------- storage errors
\* The message each store method puts before the storage error it wraps.
ErrorText(op) ==
    CASE op = "insert_batch" -> "Failed to insert batch of"
      [] op = "insert_availability" -> "Failed to insert availability for"
      [] op = "query" -> "Query execution failed"
      [] OTHER -> "Failed to refresh materialized views"

\* Variant: the storage error is dropped and the method returns.
Swallowed(op, context) == [raised |-> FALSE, error |-> "", context |-> <<>>]

\* except Exception as e: raise RuntimeError(f"<message> <context>: {e}") from e
Reraised(op, context) ==
    [raised |-> TRUE, error |-> ErrorText(op), context |-> context]

\* History of a store call during which conn.execute or conn.executemany
\* raised: the method, where it was, what it was given, and how it ended.
Faulted(op, stage, given, outcome) ==
    [op |-> op, wrote |-> {}, overwrote |-> FALSE, stage |-> stage,
     given |-> given, outcome |-> outcome]

\* The batches a failing insert_batch is given: records of two keys.
FaultBatches ==
    SeqsUpTo(RecordsFor("BTCUSDT", 1) \cup RecordsFor("ETHUSDT", 2), MaxBatch)

\* insert_batch(records) meets a storage error: in executemany at some
\* record, the rows before it written, or in the refresh that follows, every
\* row written; the aggregate is not replaced.  No statement of the method
\* opens, commits or rolls back a transaction.
InsertBatchRaises ==
    /\ \E records \in FaultBatches \ {<<>>} : \E k \in 0..Len(records) :
          /\ k = Len(records) => ~skip_materialized_refresh
          /\ daily_availability' =
                ExecuteMany(daily_availability, SubSeq(records, 1, k))
          /\ lastCall' = Faulted("insert_batch_fault",
                IF k = Len(records) THEN "refresh" ELSE "executemany",
                <<Len(records)>>, Reraised("insert_batch", <<Len(records)>>))
    /\ UNCHANGED <<daily_symbol_counts, skip_materialized_refresh, catalog, overlap,
                   runVars, poolVars>>

\* insert_availability(**r) meets a storage error in its one statement.
InsertAvailabilityRaises ==
    /\ \E r \in Records :
          lastCall' = Faulted("insert_availability_fault", "execute",
                <<r.symbol, r.date>>,
                Reraised("insert_availability", <<r.symbol, r.date>>))
    /\ UNCHANGED <<daily_availability, daily_symbol_counts,
                   skip_materialized_refresh, catalog, overlap, runVars, poolVars>>

\* query(sql, params) returns the rows fetched; the tables are only read.
QueryCall ==
    /\ lastCall' = Written("query", daily_availability, <<>>)
    /\ UNCHANGED <<daily_availability, daily_symbol_counts,
                   skip_materialized_refresh, catalog, overlap, runVars, poolVars>>

\* query(sql, params) meets a storage error.
QueryRaises ==
    /\ lastCall' = Faulted("query_fault", "execute", <<>>, Reraised("query", <<>>))
    /\ UNCHANGED <<daily_availability, daily_symbol_counts,
                   skip_materialized_refresh, catalog, overlap, runVars, poolVars>>

\* refresh_materialized_views() meets a storage error.
RefreshRaises ==
    /\ lastCall' = Faulted("refresh_materialized_views_fault", "execute", <<>>,
                           Reraised("refresh_materialized_views", <<>>))
    /\ UNCHANGED <<daily_availability, daily_symbol_counts,
                   skip_materialized_refresh, catalog, overlap, runVars, poolVars>>

FaultNext ==
    \/ InsertAvailabilityCall
    \/ RefreshCall
    \/ QueryCall
    \/ InsertBatchRaises
    \/ InsertAvailabilityRaises
    \/ QueryRaises
    \/ RefreshRaises

SpecFaults == InitStore /\ [][FaultNext]_vars

\* ------------------------------------------------- re-probing one window
\* The record a probing pass yields for (symbol, date); a pass is a first
\* probe (8 MB), a re-probe that finds the files grown (9 MB), or all 404.
PassKinds == {"first", "reprobe", "absent"}

MakeRecord(kind, symbol, date) ==
    CASE kind = "first" -> Found(symbol, date, 8, 1)
      [] kind = "reprobe" -> Found(symbol, date, 9, 2)
      [] OTHER -> NotFound(symbol, date, 1)

\* The records of one pass over [current, end] x syms, dates in the outer loop.
RECURSIVE DateRangeRecords(_, _, _, _)
DateRangeRecords(kind, syms, current, end) ==
    IF current > end THEN <<>>
    ELSE [i \in 1..Len(syms) |-> MakeRecord(kind, syms[i], current)]
            \o DateRangeRecords(kind, syms, current + 1, end)

ListOf(S) == SelectSeq(WindowSymbols, LAMBDA s : s \in S)

NonEmptySubsets(S) == SUBSET S \ {{}}

\* First pass over a window of dates, into the fresh store.
OverlapFirst ==
    /\ overlap.step = 0
    /\ \E start \in Dates : \E end \in start..NumDates :
       \E S \in NonEmptySubsets(Range(WindowSymbols)) : \E kind \in PassKinds :
          /\ insert_batch(DateRangeRecords(kind, ListOf(S), start, end))
          /\ overlap' = [step |-> 1, start |-> start, end |-> end, first |-> S,
                         second |-> {}, kind1 |-> kind, kind2 |-> "none"]
    /\ UNCHANGED <<runVars, poolVars>>

\* Second pass over the same dates, its symbol set overlapping the first's.
OverlapSecond ==
    /\ overlap.step = 1
    /\ \E S \in NonEmptySubsets(Range(WindowSymbols)) : \E kind \in PassKinds :
          /\ S \cap overlap.first # {}
          /\ insert_batch(DateRangeRecords(kind, ListOf(S), overlap.start, overlap.end))
          /\ overlap' = [overlap EXCEPT !.step = 2, !.second = S, !.kind2 = kind]
    /\ UNCHANGED <<runVars, poolVars>>

OverlapNext == OverlapFirst \/ OverlapSecond

SpecOverlap == InitStore /\ [][OverlapNext]_vars

\* ------------------------------------------------------ existence prober
\* The remote store publishes a symbol's files from its listing day on.
ListingDay(symbol) == IF symbol = "ETHUSDT" THEN 2 ELSE 1

\* What HTTP_POOL.request("HEAD", url) can yield for (symbol, date): the
\* remote's answer (200 with a Content-Length, or 404), a server error, or a
\* timeout raised by urllib3.
Responses(symbol, date) ==
    {[kind |-> "response",
      status |-> IF date >= ListingDay(symbol) THEN 200 ELSE 404,
      content_length |-> IF date >= ListingDay(symbol) THEN 9 ELSE NULL,
      last_modified |-> IF date >= ListingDay(symbol) THEN 5 ELSE NULL],
     [kind |-> "response", status |-> 500, content_length |-> NULL,
      last_modified |-> NULL],
     [kind |-> "timeout", status |-> 0, content_length |-> NULL,
      last_modified |-> NULL]}

\* A header value that does not parse (NULL is a header that is missing).
Malformed == -2

\* Every outcome of the one request, whatever the remote holds: a response
\* with any status and any combination of the two headers, a timeout, a
\* transport error (urllib3 HTTPError) or another exception.
AnyResponse ==
    {[kind |-> "response", status |-> s, content_length |-> c, last_modified |-> m] :
        s \in {200, 301, 403, 404, 500}, c \in {NULL, Malformed, 0, 9},
        m \in {NULL, Malformed, 5}}
    \cup {[kind |-> k, status |-> 0, content_length |-> NULL, last_modified |-> NULL] :
            k \in {"timeout", "http_error", "exception"}}

\* parsedate_to_datetime(Last-Modified) inside try/except: None when the
\* header is missing and when it does not parse.
ParseLastModified(header) ==
    IF header = NULL \/ header = Malformed THEN NULL ELSE header

StatusError(status) ==
    CASE status = 301 -> "Unexpected error probing: S3 probe failed: HTTP 301"
      [] status = 403 -> "Unexpected error probing: S3 probe failed: HTTP 403"
      [] OTHER -> "Unexpected error probing: S3 probe failed: HTTP 500"

\* HTTP_POOL = urllib3.PoolManager(..., retries=False)
PoolRetries == 0

\* Variant: a pool that retries a failed request once.
RequestsWithRetry(response) ==
    IF response.kind \in {"timeout", "http_error"} THEN 2 ELSE 1

\* The requests HTTP_POOL.request sends before it returns or raises: a
\* timeout or a connection error is retried as often as the pool allows.
RequestsSent(response) ==
    IF response.kind \in {"timeout", "http_error"} THEN 1 + PoolRetries ELSE 1

Returned(value) == [raised |-> FALSE, error |-> "", value |-> <<value>>]

Raised(error) == [raised |-> TRUE, error |-> error, value |-> <<>>]

\* check_symbol_availability(symbol, date), given the response of its one
\* request and the clock: a ProbeResult for 200 and 404, RuntimeError otherwise.
\* Variant: every outcome of the request is reported as an error.
CheckAlwaysRaises(symbol, date, response, now) == Raised("S3 probe failed")

check_symbol_availability(symbol, date, response, now) ==
    IF response.kind = "timeout" THEN Raised("Timeout probing")
    ELSE IF response.kind = "http_error" THEN Raised("Network error probing")
    ELSE IF response.kind = "exception" THEN Raised("Unexpected error probing")
    ELSE IF response.status = 200
         THEN IF response.content_length = Malformed
              THEN Raised("Unexpected error probing")
              ELSE Returned(
                     [Found(symbol, date,
                            IF response.content_length = NULL THEN 0
                            ELSE response.content_length, now)
                        EXCEPT !.last_modified =
                                 ParseLastModified(response.last_modified)])
    ELSE IF response.status = 404 THEN Returned(NotFound(symbol, date, now))
    ELSE Raised(StatusError(response.status))

\* The symbols and clock readings the prober is called with on its own.
ProbeSymbols ==
    {"BTCUSDT", "ETHUSDT", "BTC/USDT", "U5E01U5B89U4EBAU751FUSDT", "U1F680USDT"}

\* One finished call of check_symbol_availability(symbol, date): what the
\* request yielded, how many requests were sent, and the outcome.
Probed(symbol, date, response, now) ==
    [symbol |-> symbol, date |-> date, state |-> "finished", collected |-> FALSE,
     calls |-> 1, outcome |-> check_symbol_availability(symbol, date, response, now),
     response |-> response, requests |-> RequestsSent(response)]

\* ----------------------------------------------------------- batch prober
\* executor.submit(check_symbol_availability, symbol, date): a queued future.
NewFuture(symbol, date) ==
    [symbol |-> symbol, date |-> date, state |-> "pending", collected |-> FALSE,
     calls |-> 0, outcome |-> Raised("")]

Outstanding(f) == f.state # "finished"

InBatch(date) == {i \in DOMAIN futures : futures[i].date = date}

Running == {i \in DOMAIN futures : futures[i].state = "running"}

\* The futures that occupy a worker thread of the pool.
Busy == {i \in DOMAIN futures : futures[i].state \notin {"pending", "finished"}}

\* The clock check_symbol_availability reads: one tick per run.
Now == IF run.n = 0 THEN 1 ELSE run.n

\* Variant: the handler shuts the pool down on the first failure, cancelling
\* the futures still queued.
OnRaisedCancel(futs, i) ==
    [j \in DOMAIN futs |->
        IF j = i \/ futs[j].state = "pending"
        THEN [futs[j] EXCEPT !.collected = TRUE, !.state = "finished"]
        ELSE futs[j]]

\* except Exception: the failure is logged and collection continues.
OnRaised(futs, i) == [futs EXCEPT ![i].collected = TRUE]

\* Variant: leaving the pool as soon as every task is submitted.
BatchSubmitted(futs, date) == TRUE

\* The as_completed loop is exhausted and the with-block left (shutdown
\* waits): every future of the batch has finished and been collected.
BatchResolved(futs, date) ==
    \A i \in DOMAIN futs : futs[i].date = date => futs[i].collected

\* Variant: failures are logged only, the call returns what succeeded.
BatchNeverRaises(failures) == FALSE

\* if failed: raise RuntimeError(summary of every (symbol, error))
BatchRaises(failures) == failures # <<>>

\* probe_all_symbols(date, symbols) up to the with-block: fresh result lists
\* and a fresh executor (futures of an earlier executor that are still
\* outstanding keep running in its threads).
EnterBatch(date, syms) ==
    /\ current_date' = date
    /\ symbols' = syms
    /\ results' = <<>>
    /\ failed' = <<>>
    /\ futures' = SelectSeq(futures, Outstanding)
    /\ pc' = IF syms = <<>> THEN "collect" ELSE "submit"
    /\ UNCHANGED max_workers

\* One executor.submit of the dict comprehension, in list order.
Submit ==
    /\ pc = "submit"
    /\ LET n == Cardinality(InBatch(current_date))
       IN  /\ n < Len(symbols)
           /\ futures' = Append(futures, NewFuture(symbols[n + 1], current_date))
           /\ pc' = IF n + 1 = Len(symbols) THEN "collect" ELSE "submit"
    /\ UNCHANGED <<storeVars, overlap, checkpoint, run, prior, current_date,
                   all_results, max_workers, symbols, results, failed>>

\* Variant: a pool that starts a thread for every submitted call.
UnboundedPool(busy, workers) == TRUE

\* ThreadPoolExecutor(max_workers=workers): a queued call is taken only by
\* one of the pool's threads that is not running a call.
HasIdleWorker(busy, workers) == busy < workers

\* An idle worker thread takes the oldest queued future and calls the prober.
WorkerStart ==
    /\ HasIdleWorker(Cardinality(Busy), max_workers)
    /\ \E i \in DOMAIN futures :
          /\ futures[i].state = "pending"
          /\ \A j \in 1..(i - 1) : futures[j].state # "pending"
          /\ futures' = [futures EXCEPT ![i].state = "running",
                                        ![i].calls = @ + 1]
    /\ UNCHANGED <<storeVars, overlap, runVars, max_workers, symbols, results, failed>>

\* The worker's check_symbol_availability call returns or raises.
WorkerFinish ==
    /\ \E i \in Running :
       \E response \in Responses(futures[i].symbol, futures[i].date) :
          futures' = [futures EXCEPT
             ![i].state = "finished",
             ![i].outcome = check_symbol_availability(
                  futures[i].symbol, futures[i].date, response, Now)]
    /\ UNCHANGED <<storeVars, overlap, runVars, max_workers, symbols, results, failed>>

\* One iteration of `for future in as_completed(future_to_symbol)`.
Collect ==
    /\ pc = "collect"
    /\ \E i \in InBatch(current_date) :
          /\ futures[i].state = "finished"
          /\ ~futures[i].collected
          /\ IF futures[i].outcome.raised
             THEN /\ failed' = Append(failed,
                        <<futures[i].symbol, futures[i].outcome.error>>)
                  /\ futures' = OnRaised(futures, i)
                  /\ UNCHANGED results
             ELSE /\ results' = Append(results, futures[i].outcome.value[1])
                  /\ futures' = [futures EXCEPT ![i].collected = TRUE]
                  /\ UNCHANGED failed
    /\ UNCHANGED <<storeVars, overlap, runVars, max_workers, symbols>>

\* The with-block is left and probe_all_symbols raises or returns results.
FinishBatch ==
    /\ pc = "collect"
    /\ BatchResolved(futures, current_date)
    /\ pc' = IF BatchRaises(failed) THEN "batch_raised" ELSE "batch_returned"
    /\ UNCHANGED <<storeVars, overlap, checkpoint, run, prior, current_date,
                   all_results, poolVars>>

\* BatchProber(max_workers).probe_all_symbols(date, symbols) called directly.
ProbeAllSymbolsCall ==
    /\ pc = "idle"
    /\ \E date \in Dates : \E S \in SUBSET Range(WindowSymbols) :
          EnterBatch(date, ListOf(S))
    /\ UNCHANGED <<storeVars, overlap, checkpoint, run, prior, all_results>>

InitProbe ==
    /\ StoreInit({FALSE})
    /\ OverlapInit
    /\ RunInit
    /\ PoolInit(1..MaxWorkers)

ProbeNext ==
    ProbeAllSymbolsCall \/ Submit \/ WorkerStart \/ WorkerFinish \/ Collect \/ FinishBatch

SpecProbe == InitProbe /\ [][ProbeNext]_vars

\* --------------------------------------------------------- probe_date_range
\* Variant: a loop that leaves the end date out.
StopsBeforeEnd(current, end) == current < end

\* while current_date <= end_date
LoopContinues(current, end) == current <= end

\* probe_date_range: the loop condition holds and probe_all_symbols is
\* entered for current_date.
BeginDate ==
    /\ pc = "date_loop"
    /\ LoopContinues(current_date, run.end_date)
    /\ EnterBatch(current_date, run.symbols)
    /\ run' = [run EXCEPT !.batches = Append(@, current_date)]
    /\ UNCHANGED <<storeVars, overlap, checkpoint, prior, all_results>>

\* Variant: the callback is not invoked.
CallbackSkipped(called, date) == called

\* checkpoint_callback(current_date, date_results): the dates the callback
\* has been invoked for, in call order.
InvokeCallback(called, date) == Append(called, date)

\* probe_all_symbols returned: all_results.extend(date_results), then the
\* checkpoint callback if one was given (run_backfill's callback is
\* save_checkpoint(current_date)), then current_date += 1 day.
DateSucceeded ==
    /\ pc = "batch_returned"
    /\ all_results' = all_results \o results
    /\ IF run.callback
       THEN /\ checkpoint' = current_date
            /\ run' = [run EXCEPT !.saved = TRUE,
                                  !.called = InvokeCallback(@, current_date)]
       ELSE UNCHANGED <<checkpoint, run>>
    /\ current_date' = current_date + 1
    /\ pc' = "date_loop"
    /\ UNCHANGED <<storeVars, overlap, prior, poolVars>>

\* Variant: the batch error is passed on as it is, without the date.
PassedOn(date, cause) == [raised |-> TRUE, date |-> NULL, cause |-> cause]

\* raise RuntimeError(f"Probe failed for {current_date}: {e}") from e: the
\* error names the date and carries the batch error, which lists every
\* failed symbol with its message.
DateError(date, cause) == [raised |-> TRUE, date |-> date, cause |-> cause]

\* probe_all_symbols raised: the RuntimeError is re-raised with the date and
\* leaves probe_date_range, whose list of results goes with its frame.
RangeFails ==
    /\ pc = "batch_raised"
    /\ pc' = "range_raised"
    /\ run' = [run EXCEPT !.error = DateError(current_date, failed)]
    /\ results' = <<>>
    /\ all_results' = <<>>
    /\ UNCHANGED <<storeVars, overlap, checkpoint, prior, current_date,
                   max_workers, symbols, futures, failed>>

\* The loop is over: probe_date_range returns all_results.
RangeDone ==
    /\ pc = "date_loop"
    /\ ~LoopContinues(current_date, run.end_date)
    /\ pc' = "range_returned"
    /\ UNCHANGED <<storeVars, overlap, checkpoint, run, prior, current_date,
                   all_results, poolVars>>

\* The arguments of a call: the range, the symbol list, with or without a
\* checkpoint callback.
NewRun(n, start, end, resume, start_date, syms, callback) ==
    [n |-> n, start_arg |-> start, end_date |-> end, resume |-> resume,
     found |-> checkpoint, start_date |-> start_date, symbols |-> syms,
     callback |-> callback, batches |-> <<>>, saved |-> FALSE,
     called |-> <<>>, ended |-> "none", at |-> "idle",
     path |-> "probe_date_range", before |-> <<{}, {}>>, error |-> NoError,
     conn |-> "none"]

\* BatchProber(max_workers).probe_date_range(start, end, symbols) called
\* directly, as the lookback daily update does.
ProbeDateRangeCall ==
    /\ pc = "idle"
    /\ \E start \in Dates : \E end \in Dates : \E callback \in BOOLEAN :
          /\ run' = NewRun(1, start, end, FALSE, start, DiscoveredSymbols, callback)
          /\ current_date' = start
    /\ all_results' = <<>>
    /\ pc' = "date_loop"
    /\ UNCHANGED <<storeVars, overlap, checkpoint, prior, poolVars>>

RangeNext ==
    \/ ProbeDateRangeCall
    \/ BeginDate
    \/ Submit
    \/ WorkerStart
    \/ WorkerFinish
    \/ Collect
    \/ FinishBatch
    \/ DateSucceeded
    \/ RangeFails
    \/ RangeDone

SpecRange == InitProbe /\ [][RangeNext]_vars

\* ------------------------------------------------- checkpointed backfill
Stopped == {"idle", "done", "failed", "crashed"}

\* load_checkpoint(): the date in the checkpoint file, None when absent.
load_checkpoint == checkpoint

\* Variant: a file that does not parse is read as any other.
LoadNeverRaises(file) == FALSE

\* load_checkpoint(): date.fromisoformat raises ValueError on a file that is
\* not one ISO date, an empty file included.
LoadRaises(file) == file = Malformed

\* Variant: resuming at the checkpointed date itself.
ResumeAtCheckpoint(start, resume) ==
    IF resume /\ load_checkpoint # NULL THEN load_checkpoint ELSE start

\* run_backfill: start_date = checkpoint + timedelta(days=1) when resume is
\* requested and a checkpoint was loaded, else the caller's start_date.
ResumeStart(start, resume) ==
    IF resume /\ load_checkpoint # NULL THEN load_checkpoint + 1 ELSE start

\* History kept of the run before: whether it began at its own start_date
\* and was stopped, by a kill or by a failing probe, after it had saved a
\* checkpoint and before the probe of the next date completed; and its range.
Interruption(r) ==
    IF /\ r.saved
       /\ r.start_date = r.start_arg
       /\ \/ r.ended = "crashed" /\ r.at = "date_loop"
          \/ r.ended = "failed" /\ r.at = "probe"
    THEN [interrupted |-> TRUE, start_arg |-> r.start_arg, end_date |-> r.end_date,
          killed |-> r.ended = "crashed"]
    ELSE [interrupted |-> FALSE, start_arg |-> 1, end_date |-> 1, killed |-> FALSE]

\* run_backfill(start_date, end_date, resume_from_checkpoint) up to the call
\* of probe_date_range, in a fresh process: the store is opened (its schema
\* exists), a prober is built, the callback is checkpoint_callback.
StartBackfill ==
    /\ pc \in Stopped
    /\ run.n < MaxRuns
    /\ \E start \in Dates : \E end \in Dates : \E resume \in BOOLEAN :
          /\ ~(resume /\ LoadRaises(checkpoint))
          /\ run' = [NewRun(run.n + 1, start, end, resume,
                            ResumeStart(start, resume), DiscoveredSymbols, TRUE)
                        EXCEPT !.path = "run_backfill", !.conn = Connect]
          /\ current_date' = ResumeStart(start, resume)
    /\ prior' = Interruption(run)
    /\ all_results' = <<>>
    /\ symbols' = <<>>
    /\ futures' = <<>>
    /\ results' = <<>>
    /\ failed' = <<>>
    /\ pc' = "date_loop"
    /\ UNCHANGED <<storeVars, overlap, checkpoint, max_workers>>

\* The outcome of the probe of each symbol of the list, in list order.
ProbeOutcomes(date, syms, responses) ==
    [k \in DOMAIN syms |->
        [symbol |-> syms[k],
         outcome |-> check_symbol_availability(syms[k], date, responses[k], Now)]]

AllResponses(date, syms) == UNION {Responses(syms[k], date) : k \in DOMAIN syms}

\* probe_all_symbols(current_date) run to its end inside probe_date_range:
\* every symbol is probed, successes go to results and failures to failed,
\* and the call raises or returns.  The order in which workers complete only
\* permutes the two lists; list order stands for it here.
ProbeAll(date, syms) ==
    /\ \E responses \in [DOMAIN syms -> AllResponses(date, syms)] :
          /\ \A k \in DOMAIN syms : responses[k] \in Responses(syms[k], date)
          /\ LET outs == ProbeOutcomes(date, syms, responses)
                 ok == SelectSeq(outs, LAMBDA o : ~o.outcome.raised)
                 bad == SelectSeq(outs, LAMBDA o : o.outcome.raised)
             IN  /\ results' = [k \in DOMAIN ok |-> ok[k].outcome.value[1]]
                 /\ failed' = [k \in DOMAIN bad |->
                                 <<bad[k].symbol, bad[k].outcome.error>>]
    /\ symbols' = syms

\* One pass of the probe_date_range loop: probe_all_symbols(current_date).
ProbeDate ==
    /\ pc = "date_loop"
    /\ current_date <= run.end_date
    /\ ProbeAll(current_date, run.symbols)
    /\ pc' = IF BatchRaises(failed') THEN "batch_raised" ELSE "batch_returned"
    /\ run' = [run EXCEPT !.batches = Append(@, current_date)]
    /\ UNCHANGED <<storeVars, overlap, checkpoint, prior, current_date,
                   all_results, max_workers, futures>>

\* Variant: the handler removes the checkpoint file.
HandlerClears(file) == NULL

\* except Exception: the error and the resume hint are logged and the error
\* is re-raised; the checkpoint file is what it was.
ExceptHandler(file) == file

\* The RuntimeError of probe_date_range reaches run_backfill's handler: it is
\* logged and re-raised, and the store is closed.
BackfillFails ==
    /\ pc = "range_raised"
    /\ run.path = "run_backfill"
    /\ pc' = "failed"
    /\ checkpoint' = ExceptHandler(checkpoint)
    /\ run' = [run EXCEPT !.ended = "failed", !.at = "probe", !.error = NoError,
                          !.conn = close(@)]
    /\ all_results' = <<>>
    /\ failed' = <<>>
    /\ UNCHANGED <<storeVars, overlap, prior, current_date,
                   max_workers, symbols, futures, results>>

\* db.insert_batch(all_results) raises RuntimeError: executemany failed at
\* some record, the rows before it written, or the refresh failed after all
\* rows were written; the aggregate is not refreshed.  The handler logs and
\* re-raises, and the store is closed.
InsertRaises ==
    /\ pc = "range_returned"
    /\ run.path = "run_backfill"
    /\ all_results # <<>>
    /\ \E k \in 0..Len(all_results) :
          daily_availability' =
              ExecuteMany(daily_availability, SubSeq(all_results, 1, k))
    /\ lastCall' = Written("insert_batch_raised", daily_availability, <<>>)
    /\ pc' = "failed"
    /\ checkpoint' = ExceptHandler(checkpoint)
    /\ run' = [run EXCEPT !.ended = "failed", !.at = "insert", !.conn = close(@)]
    /\ all_results' = <<>>
    /\ UNCHANGED <<daily_symbol_counts, skip_materialized_refresh, catalog, overlap,
                   prior, current_date, poolVars>>

\* db.insert_batch(all_results)
InsertAll ==
    /\ pc = "range_returned"
    /\ run.path = "run_backfill"
    /\ insert_batch(all_results)
    /\ pc' = "clear"
    /\ UNCHANGED <<overlap, checkpoint, run, prior, current_date, all_results,
                   poolVars>>

\* Variant: the checkpoint file is left in place.
ClearKeepsFile == checkpoint

\* clear_checkpoint(): the file is unlinked if it exists.
clear_checkpoint == NULL

\* clear_checkpoint(), then the store is closed and run_backfill returns.
ClearCheckpoint ==
    /\ pc = "clear"
    /\ checkpoint' = clear_checkpoint
    /\ pc' = "done"
    /\ run' = [run EXCEPT !.ended = "done", !.at = "clear", !.conn = close(@)]
    /\ UNCHANGED <<storeVars, overlap, prior, current_date, all_results, poolVars>>

\* The process is killed: what it held in memory is gone, the checkpoint
\* file and the store stay as they are.
Crash ==
    /\ pc \notin Stopped
    /\ pc' = "crashed"
    /\ run' = [run EXCEPT !.ended = "crashed", !.error = NoError,
                          !.at = IF pc = "date_loop" THEN "date_loop" ELSE "other"]
    /\ all_results' = <<>>
    /\ symbols' = <<>>
    /\ futures' = <<>>
    /\ results' = <<>>
    /\ failed' = <<>>
    /\ UNCHANGED <<storeVars, overlap, checkpoint, prior, current_date, max_workers>>

Init ==
    /\ StoreInit({FALSE})
    /\ OverlapInit
    /\ RunInit
    /\ PoolInit({DefaultMaxWorkers})

Next ==
    \/ StartBackfill
    \/ ProbeDate
    \/ DateSucceeded
    \/ RangeFails
    \/ RangeDone
    \/ BackfillFails
    \/ InsertAll
    \/ InsertRaises
    \/ ClearCheckpoint
    \/ Crash

Spec == Init /\ [][Next]_vars

\* ------------------------------------------------- a torn checkpoint file
\* The process is killed inside save_checkpoint: write_text has truncated
\* the file and the date is not written yet.
TornSave ==
    /\ pc = "batch_returned"
    /\ run.callback
    /\ checkpoint' = Malformed
    /\ pc' = "crashed"
    /\ run' = [run EXCEPT !.ended = "crashed", !.at = "save_checkpoint"]
    /\ all_results' = <<>>
    /\ symbols' = <<>>
    /\ futures' = <<>>
    /\ results' = <<>>
    /\ failed' = <<>>
    /\ UNCHANGED <<storeVars, overlap, prior, current_date, max_workers>>

\* run_backfill(start_date, end_date, resume_from_checkpoint=True) on a
\* checkpoint file that does not parse: load_checkpoint raises, before the
\* store is opened and before the try block, so the error leaves run_backfill.
LoadCheckpointRaises ==
    /\ pc \in Stopped
    /\ run.n < MaxRuns
    /\ LoadRaises(checkpoint)
    /\ \E start \in Dates : \E end \in Dates :
          run' = [NewRun(run.n + 1, start, end, TRUE, start, DiscoveredSymbols, TRUE)
                    EXCEPT !.path = "run_backfill", !.ended = "failed",
                           !.at = "load_checkpoint"]
    /\ prior' = Interruption(run)
    /\ pc' = "failed"
    /\ all_results' = <<>>
    /\ symbols' = <<>>
    /\ futures' = <<>>
    /\ results' = <<>>
    /\ failed' = <<>>
    /\ UNCHANGED <<storeVars, overlap, checkpoint, current_date, max_workers>>

ResumeNext ==
    \/ StartBackfill
    \/ LoadCheckpointRaises
    \/ ProbeDate
    \/ DateSucceeded
    \/ TornSave
    \/ RangeFails
    \/ RangeDone
    \/ BackfillFails
    \/ InsertAll
    \/ ClearCheckpoint

SpecResume == Init /\ [][ResumeNext]_vars

\* ------------------------------------------------- the prober on its own
\* check_symbol_availability(symbol, date) is called once, from a test or a
\* script, and the request yields any of its outcomes.
CheckCall ==
    /\ \E symbol \in ProbeSymbols : \E date \in Dates :
       \E response \in AnyResponse : \E now \in 1..MaxRuns :
          futures' = <<Probed(symbol, date, response, now)>>
    /\ UNCHANGED <<storeVars, overlap, runVars, max_workers, symbols, results, failed>>

SpecCheck == Init /\ [][CheckCall]_vars

\* ----------------------------------------------------------- daily update
SingleDatePaths == {"daily_update_job", "run_manual_update", "run_daily_update"}

\* A daily-update entry point is called in a fresh process on the store as
\* it stands: the call's arguments, and the tables before the call.
NewUpdate(path, start, end) ==
    [NewRun(run.n + 1, start, end, FALSE, start, DiscoveredSymbols, FALSE)
        EXCEPT !.path = path,
               !.before = <<daily_availability, daily_symbol_counts>>]

StartUpdate(path, start, end, first) ==
    /\ run' = NewUpdate(path, start, end)
    /\ current_date' = start
    /\ all_results' = <<>>
    /\ symbols' = <<>>
    /\ futures' = <<>>
    /\ results' = <<>>
    /\ failed' = <<>>
    /\ pc' = first
    /\ UNCHANGED <<storeVars, overlap, checkpoint, prior, max_workers>>

\* DailyUpdateScheduler.daily_update_job(): the date is yesterday.
DailyUpdateJob ==
    /\ pc \in Stopped
    /\ run.n < MaxRuns
    /\ \E yesterday \in Dates :
          StartUpdate("daily_update_job", yesterday, yesterday, "probe")

\* DailyUpdateScheduler.run_manual_update(date)
RunManualUpdate ==
    /\ pc \in Stopped
    /\ run.n < MaxRuns
    /\ \E date \in Dates : StartUpdate("run_manual_update", date, date, "probe")

\* run_daily_update.py main(): LOOKBACK_DAYS = 1 probes yesterday alone with
\* probe_all_symbols, a longer window goes through probe_date_range.
RunDailyUpdate ==
    /\ pc \in Stopped
    /\ run.n < MaxRuns
    /\ \E yesterday \in Dates : \E lookback_days \in 1..yesterday :
          IF lookback_days = 1
          THEN StartUpdate("run_daily_update", yesterday, yesterday, "probe")
          ELSE StartUpdate("lookback", yesterday - (lookback_days - 1), yesterday,
                           "date_loop")

\* prober.probe_all_symbols(date) of a single-date update, run to its end.
ProbeSingle ==
    /\ pc = "probe"
    /\ ProbeAll(current_date, run.symbols)
    /\ pc' = IF BatchRaises(failed') THEN "single_raised" ELSE "single_returned"
    /\ run' = [run EXCEPT !.batches = Append(@, current_date)]
    /\ UNCHANGED <<storeVars, overlap, checkpoint, prior, current_date,
                   all_results, max_workers, futures>>

\* db = AvailabilityDatabase(db_path); db.insert_batch(results); db.close()
InsertSingle ==
    /\ pc = "single_returned"
    /\ insert_batch(results)
    /\ pc' = "done"
    /\ run' = [run EXCEPT !.ended = "done", !.conn = close(Connect)]
    /\ UNCHANGED <<overlap, checkpoint, prior, current_date, all_results, poolVars>>

\* The lookback window was probed: db.insert_batch(results) of all its dates.
InsertWindow ==
    /\ pc = "range_returned"
    /\ run.path = "lookback"
    /\ insert_batch(all_results)
    /\ pc' = "done"
    /\ run' = [run EXCEPT !.ended = "done", !.conn = close(Connect)]
    /\ UNCHANGED <<overlap, checkpoint, prior, current_date, all_results, poolVars>>

\* The probe raised: daily_update_job logs and re-raises, run_manual_update
\* lets the error through, the script logs and exits with status 1.
UpdateFails ==
    /\ pc \in {"single_raised", "range_raised"}
    /\ run.path # "run_backfill"
    /\ pc' = "failed"
    /\ run' = [run EXCEPT !.ended = "failed", !.at = "probe"]
    /\ UNCHANGED <<storeVars, overlap, checkpoint, prior, current_date,
                   all_results, poolVars>>

UpdateNext ==
    \/ DailyUpdateJob
    \/ RunManualUpdate
    \/ RunDailyUpdate
    \/ ProbeSingle
    \/ InsertSingle
    \/ ProbeDate
    \/ DateSucceeded
    \/ RangeFails
    \/ RangeDone
    \/ InsertWindow
    \/ UpdateFails

SpecUpdate == Init /\ [][UpdateNext]_vars

\* ------------------------------------------------------ volume enrichment
\* download_1d_kline(symbol, date): the nine metrics of the day's 1d kline.
VolumeData == [c \in VolumeKeys |-> 7]

\* The (symbol, date) pairs the volume backfill is run for.
VolumeTargets == {<<DiscoveredSymbols[1], 1>>, <<DiscoveredSymbols[1], 2>>}

\* Variant: an upsert, which stores a row for a key that has none.
UpsertVolume(table, symbol, target_date, volume_data) ==
    IF \E x \in table : x.symbol = symbol /\ x.date = target_date
    THEN {IF x.symbol = symbol /\ x.date = target_date
          THEN [k \in BaseKeys \cup VolumeKeys |->
                   IF k \in VolumeKeys THEN volume_data[k] ELSE x[k]]
          ELSE x : x \in table}
    ELSE table \cup {[k \in {"date", "symbol"} \cup VolumeKeys |->
                        IF k = "date" THEN target_date
                        ELSE IF k = "symbol" THEN symbol ELSE volume_data[k]]}

\* UPDATE daily_availability SET <the nine volume columns> = ?
\* WHERE symbol = ? AND date = ?
UpdateVolume(table, symbol, target_date, volume_data) ==
    {IF x.symbol = symbol /\ x.date = target_date
     THEN [k \in BaseKeys \cup {c \in VolumeKeys : volume_data[c] # NULL} |->
              IF k \in VolumeKeys THEN volume_data[k] ELSE x[k]]
     ELSE x : x \in table}

\* update_volume_metrics(db, symbol, target_date, volume_data), called by
\* the volume backfill script before the first update or after one that
\* completed.
UpdateVolumeMetrics ==
    /\ pc \in {"idle", "done"}
    /\ \E symbol \in Range(DiscoveredSymbols) : \E target_date \in Dates :
          /\ <<symbol, target_date>> \in VolumeTargets
          /\ daily_availability' =
                UpdateVolume(daily_availability, symbol, target_date, VolumeData)
          /\ lastCall' = [op |-> "update_volume_metrics", wrote |-> {},
                          overwrote |-> FALSE, symbol |-> symbol,
                          date |-> target_date, volume_data |-> VolumeData,
                          before |-> <<daily_availability, daily_symbol_counts>>]
    /\ UNCHANGED <<daily_symbol_counts, skip_materialized_refresh, catalog,
                   overlap, runVars, poolVars>>

\* The daily update script and the volume backfill on one store; an update
\* whose probe raised ends there.
EnrichNext ==
    \/ RunDailyUpdate
    \/ ProbeSingle
    \/ InsertSingle
    \/ ProbeDate
    \/ DateSucceeded
    \/ RangeDone
    \/ InsertWindow
    \/ UpdateVolumeMetrics

SpecEnrich == Init /\ [][EnrichNext]_vars

\* ----------------------------------------------------------- exit codes
\* What the entry point hands to the shell: cmd_manual_update and
\* cmd_backfill return 0 after the scheduler's call returned and 1 from their
\* except clause; run_daily_update.py calls sys.exit(0) after the insert and
\* sys.exit(1) from its except clause.  A killed process returns nothing.
ExitCode(r) ==
    IF r.ended = "done" THEN 0 ELSE IF r.ended = "failed" THEN 1 ELSE NULL

\* run_daily_update.py main() without DB_PATH: logs and exits with status 1
\* before anything is probed.
RunDailyUpdateNoDbPath ==
    /\ pc \in Stopped
    /\ run.n < MaxRuns
    /\ \E yesterday \in Dates :
          run' = [NewUpdate("run_daily_update", yesterday, yesterday)
                     EXCEPT !.ended = "failed", !.at = "db_path"]
    /\ pc' = "failed"
    /\ current_date' = run'.start_arg
    /\ all_results' = <<>>
    /\ symbols' = <<>>
    /\ futures' = <<>>
    /\ results' = <<>>
    /\ failed' = <<>>
    /\ UNCHANGED <<storeVars, overlap, checkpoint, prior, max_workers>>

\* db.insert_batch(results) of an update raises RuntimeError: the rows before
\* the failing one are written, the aggregate is not refreshed; the except
\* clause of the script or of cmd_manual_update logs it.  db.close() is the
\* statement after the insert and is not reached.
UpdateInsertRaises ==
    /\ pc \in {"single_returned", "range_returned"}
    /\ run.path # "run_backfill"
    /\ LET records == IF pc = "single_returned" THEN results ELSE all_results
       IN  /\ records # <<>>
           /\ \E k \in 0..Len(records) :
                 daily_availability' =
                     ExecuteMany(daily_availability, SubSeq(records, 1, k))
    /\ lastCall' = Written("insert_batch_raised", daily_availability, <<>>)
    /\ pc' = "failed"
    /\ run' = [run EXCEPT !.ended = "failed", !.at = "insert", !.conn = Connect]
    /\ UNCHANGED <<daily_symbol_counts, skip_materialized_refresh, catalog, overlap,
                   checkpoint, prior, current_date, all_results, poolVars>>

\* The entry points a shell sees: cmd_backfill (run_backfill),
\* cmd_manual_update (run_manual_update) and run_daily_update.py.
EntryNext ==
    \/ StartBackfill
    \/ RunManualUpdate
    \/ RunDailyUpdate
    \/ RunDailyUpdateNoDbPath
    \/ ProbeSingle
    \/ InsertSingle
    \/ ProbeDate
    \/ DateSucceeded
    \/ RangeFails
    \/ RangeDone
    \/ InsertWindow
    \/ UpdateFails
    \/ UpdateInsertRaises
    \/ BackfillFails
    \/ InsertAll
    \/ InsertRaises
    \/ ClearCheckpoint

SpecEntry == Init /\ [][EntryNext]_vars

\* ------------------------------------------------- worker-pool backfill
\* scripts/operations/backfill.py main(): one store connection is opened
\* and one backfill_symbol task per symbol is submitted to a thread pool, each
\* given the same connection.
OperationsBackfill ==
    /\ pc = "idle"
    /\ \E start \in Dates : \E end \in start..NumDates :
       \E S \in NonEmptySubsets(Range(WindowSymbols)) :
          /\ run' = [NewRun(1, start, end, FALSE, start, ListOf(S), FALSE)
                        EXCEPT !.path = "operations_backfill"]
          /\ EnterBatch(start, ListOf(S))
    /\ UNCHANGED <<storeVars, overlap, checkpoint, prior, all_results>>

\* get_symbol_availability(symbol, start, end): the dates of the range that
\* have a file in the listing of the symbol.
Listing(symbol, start, end) == {d \in start..end : d >= ListingDay(symbol)}

\* Variant: a record is built for the listed dates alone.
ListedRecords(symbol, start, end) ==
    [k \in 1..Cardinality(Listing(symbol, start, end)) |->
        Found(symbol, end - Cardinality(Listing(symbol, start, end)) + k, 9, Now)]

\* backfill_symbol builds one record per date of the range from the listing:
\* available with the listed size where a file is listed, else the 404 form.
SymbolRecords(symbol, start, end) ==
    [k \in 1..(end - start + 1) |->
        IF start + k - 1 \in Listing(symbol, start, end)
        THEN Found(symbol, start + k - 1, 9, Now)
        ELSE NotFound(symbol, start + k - 1, Now)]

\* The dict backfill_symbol returns; error is None after a success, written
\* "" here: main tests `if result["error"]`, which takes the two alike.
Summary(symbol, dates_found, total_dates, error) ==
    [symbol |-> symbol, dates_found |-> dates_found, total_dates |-> total_dates,
     error |-> error]

\* Variant: backfill_symbol lets the error out of the task.
ErrorRaised(symbol, error) == Raised(error)

\* except Exception as e: return {"symbol": symbol, "dates_found": 0,
\* "total_dates": 0, "error": str(e)}
ErrorReturned(symbol, error) == Returned(Summary(symbol, 0, 0, error))

\* A worker's backfill_symbol gets the listing: on an error it returns the
\* error dict, else it has built its records and calls db.insert_batch.
ListSymbol ==
    /\ run.path = "operations_backfill"
    /\ \E i \in Running : \E listed \in BOOLEAN :
          futures' = [futures EXCEPT
             ![i].state = IF listed THEN "insert_batch" ELSE "finished",
             ![i].outcome = IF listed THEN @
                            ELSE ErrorReturned(futures[i].symbol, "AWS CLI failed")]
    /\ UNCHANGED <<storeVars, overlap, runVars, max_workers, symbols, results, failed>>

\* The worker's insert_batch runs its executemany on the shared connection.
WorkerExecuteMany ==
    /\ \E i \in DOMAIN futures :
          /\ futures[i].state = "insert_batch"
          /\ daily_availability' = ExecuteMany(daily_availability,
                 SymbolRecords(futures[i].symbol, run.start_date, run.end_date))
          /\ lastCall' = Written("executemany", daily_availability,
                 SymbolRecords(futures[i].symbol, run.start_date, run.end_date))
          /\ futures' = [futures EXCEPT ![i].state = "refresh"]
    /\ UNCHANGED <<daily_symbol_counts, skip_materialized_refresh, catalog, overlap,
                   runVars, max_workers, symbols, results, failed>>

\* The worker's insert_batch refreshes the aggregate and returns, and
\* backfill_symbol returns its summary.
WorkerRefresh ==
    /\ \E i \in DOMAIN futures :
          /\ futures[i].state = "refresh"
          /\ daily_symbol_counts' =
                RefreshMaterializedViews(daily_availability, daily_symbol_counts)
          /\ lastCall' = [Written("insert_batch", daily_availability,
                 SymbolRecords(futures[i].symbol, run.start_date, run.end_date))
                 EXCEPT !.refreshes = 1]
          /\ futures' = [futures EXCEPT
                ![i].state = "finished",
                ![i].outcome = Returned(Summary(futures[i].symbol,
                    Cardinality(Listing(futures[i].symbol, run.start_date,
                                        run.end_date)),
                    run.end_date - run.start_date + 1, ""))]
    /\ UNCHANGED <<daily_availability, skip_materialized_refresh, catalog, overlap,
                   runVars, max_workers, symbols, results, failed>>

\* The worker's insert_batch raises RuntimeError, in executemany with the
\* rows before the failing one written or in the refresh with every row
\* written; backfill_symbol returns the error dict.
WorkerInsertRaises ==
    /\ \E i \in DOMAIN futures :
          /\ futures[i].state \in {"insert_batch", "refresh"}
          /\ LET records == SymbolRecords(futures[i].symbol, run.start_date,
                                          run.end_date)
             IN  IF futures[i].state = "refresh"
                 THEN UNCHANGED daily_availability
                 ELSE \E k \in 0..(Len(records) - 1) :
                         daily_availability' =
                             ExecuteMany(daily_availability, SubSeq(records, 1, k))
          /\ futures' = [futures EXCEPT
                ![i].state = "finished",
                ![i].outcome = ErrorReturned(futures[i].symbol,
                                             "Failed to insert batch of")]
    /\ lastCall' = Written("insert_batch_raised", daily_availability, <<>>)
    /\ UNCHANGED <<daily_symbol_counts, skip_materialized_refresh, catalog, overlap,
                   runVars, max_workers, symbols, results, failed>>

\* One iteration of main's as_completed loop: the summary is appended to
\* results, and the symbol to failed_symbols when the summary has an error.
CollectSymbol ==
    /\ pc = "collect"
    /\ run.path = "operations_backfill"
    /\ \E i \in InBatch(current_date) :
          /\ futures[i].state = "finished"
          /\ ~futures[i].collected
          /\ results' = Append(results, futures[i].symbol)
          /\ failed' = IF futures[i].outcome.raised
                       THEN Append(failed,
                               <<futures[i].symbol, futures[i].outcome.error>>)
                       ELSE IF futures[i].outcome.value[1].error # ""
                       THEN Append(failed,
                               <<futures[i].symbol,
                                 futures[i].outcome.value[1].error>>)
                       ELSE failed
          /\ futures' = [futures EXCEPT ![i].collected = TRUE]
    /\ UNCHANGED <<storeVars, overlap, runVars, max_workers, symbols>>

\* The pool is left and main returns 1 if a symbol failed, else 0.
OperationsDone ==
    /\ pc = "collect"
    /\ run.path = "operations_backfill"
    /\ BatchResolved(futures, current_date)
    /\ pc' = IF failed # <<>> THEN "failed" ELSE "done"
    /\ run' = [run EXCEPT !.ended = pc']
    /\ UNCHANGED <<storeVars, overlap, checkpoint, prior, current_date,
                   all_results, poolVars>>

OperationsNext ==
    \/ OperationsBackfill
    \/ Submit
    \/ WorkerStart
    \/ ListSymbol
    \/ WorkerExecuteMany
    \/ WorkerRefresh
    \/ WorkerInsertRaises
    \/ CollectSymbol
    \/ OperationsDone

SpecOperations == InitProbe /\ [][OperationsNext]_vars

\* ---------------------------------------------------------- gap detection
\* query_database_symbols(): SELECT DISTINCT symbol FROM daily_availability
DatabaseSymbols == {x.symbol : x \in daily_availability}

\* detect_gaps(): the discovered symbols the store has no row of, sorted.
detect_gaps(discovered_symbols) == ListOf(discovered_symbols \ DatabaseSymbols)

\* What main() returns after it printed the list: 0 in both branches.
GapsReturn(new_symbols) == IF new_symbols # <<>> THEN 0 ELSE 0

\* detect_symbol_gaps.py main() when symbols.json lists some symbols and the
\* query succeeds: the list is printed as JSON and main returns.
DetectSymbolGaps ==
    /\ \E discovered_symbols \in NonEmptySubsets(Range(WindowSymbols)) :
          lastCall' = [op |-> "detect_symbol_gaps", wrote |-> {}, overwrote |-> FALSE,
                       raised |-> FALSE,
                       printed |-> detect_gaps(discovered_symbols),
                       exit |-> GapsReturn(detect_gaps(discovered_symbols))]
    /\ UNCHANGED <<daily_availability, daily_symbol_counts,
                   skip_materialized_refresh, catalog, overlap, runVars, poolVars>>

\* detect_gaps raises (symbols.json missing, not JSON or without symbols,
\* or the query failed): main prints "[]" and returns 1.
DetectSymbolGapsFails ==
    /\ \E cause \in {"symbols.json", "query"} :
          lastCall' = [op |-> "detect_symbol_gaps", wrote |-> {}, overwrote |-> FALSE,
                       raised |-> TRUE, cause |-> cause, printed |-> <<>>, exit |-> 1]
    /\ UNCHANGED <<daily_availability, daily_symbol_counts,
                   skip_materialized_refresh, catalog, overlap, runVars, poolVars>>

GapsNext == InsertAvailabilityCall \/ DetectSymbolGaps \/ DetectSymbolGapsFails

SpecGaps == InitStore /\ [][GapsNext]_vars

\* ----------------------------------------------------------- store claims
IsWrite == lastCall.op \in {"insert_batch", "insert_availability"}

RowsOfKey(k) == {x \in daily_availability : Key(x) = k}

\* C1: after any sequence of insert_batch and insert_availability calls the
\* base table holds at most one row per (date, symbol), and every record a
\* write call gave last for its key is in the table (no write is ignored).
TheoremC1 ==
    /\ \A x \in daily_availability : \A y \in daily_availability :
          Key(x) = Key(y) => x = y
    /\ IsWrite => lastCall.wrote \subseteq daily_availability

\* A batch of two keys has just replaced a row that held other values.
WitnessC1 ==
    /\ lastCall.op = "insert_batch"
    /\ lastCall.overwrote
    /\ Cardinality(lastCall.wrote) >= 2

\* C2: a write of R' over a key that may already hold a row R leaves exactly
\* one row under that key, and the row is R' (last write wins), for
\* insert_batch and for insert_availability.
TheoremC2 ==
    IsWrite => \A r \in lastCall.wrote : RowsOfKey(Key(r)) = {r}

\* A call that wrote one key has just replaced a row R with a different R'.
WitnessC2 ==
    /\ IsWrite
    /\ lastCall.overwrote
    /\ Cardinality(lastCall.wrote) = 1

\* C3: from an empty store, two batches over the same dates with overlapping
\* or identical symbol sets leave |dates| x |distinct symbols| rows, and every
\* row the second batch covers carries the second batch's values.
TheoremC3 ==
    overlap.step = 2 =>
        /\ Cardinality(daily_availability) =
             (overlap.end - overlap.start + 1)
                * Cardinality(overlap.first \cup overlap.second)
        /\ \A x \in daily_availability :
             x.symbol \in overlap.second
                => x = MakeRecord(overlap.kind2, x.symbol, x.date)

\* Two passes over several dates, symbol sets overlapping but not equal, the
\* second pass reporting other values than the first.
WitnessC3 ==
    /\ overlap.step = 2
    /\ overlap.start < overlap.end
    /\ overlap.first # overlap.second
    /\ overlap.first \ overlap.second # {}
    /\ overlap.kind1 # overlap.kind2

\* The aggregate row of date d agrees with the base table.
CountsAgree(d) ==
    \E c \in daily_symbol_counts :
        /\ c.date = d
        /\ \A c2 \in daily_symbol_counts : c2.date = d => c2 = c
        /\ c.total_symbols = Cardinality({x \in daily_availability : x.date = d})
        /\ c.available_symbols =
             Cardinality({x \in daily_availability : x.date = d /\ x.available})

AfterNonEmptyBatch == lastCall.op = "insert_batch" /\ lastCall.wrote # {}

EmptyBatchReturned == lastCall.op = "insert_batch" /\ lastCall.wrote = {}

\* C21: a step that is insert_batch([]) returning leaves daily_availability
\* and daily_symbol_counts as they were: no row is written and no refresh
\* is run.
TheoremC21 ==
    [][EmptyBatchReturned' =>
          /\ daily_availability' = daily_availability
          /\ daily_symbol_counts' = daily_symbol_counts]_vars

\* insert_batch([]) has returned on a refreshing store that holds rows and
\* whose aggregate is stale: a refresh would have changed it.
WitnessC21 ==
    /\ EmptyBatchReturned
    /\ ~skip_materialized_refresh
    /\ daily_availability # {}
    /\ daily_symbol_counts # GroupByDate(daily_availability)

\* C22 as stated, for the error that comes from the refresh after the rows
\* went in: a step in which insert_batch raises leaves daily_availability
\* as it was before the call.
OriginalC22 ==
    [][(lastCall'.op = "insert_batch_fault" /\ lastCall'.stage = "refresh")
          => daily_availability' = daily_availability]_vars

StorageFault ==
    lastCall.op \in {"insert_batch_fault", "insert_availability_fault",
                     "query_fault", "refresh_materialized_views_fault"}

\* C23: whenever a storage error occurred inside insert_batch,
\* insert_availability, query or refresh_materialized_views, the call ended
\* by raising, the error carrying the method's message and, for
\* insert_batch, the batch size, for insert_availability, symbol and date.
TheoremC23 ==
    StorageFault =>
        /\ lastCall.outcome.raised
        /\ lastCall.outcome.context = lastCall.given
        /\ lastCall.op = "insert_batch_fault" =>
              lastCall.outcome.error = "Failed to insert batch of"
        /\ lastCall.op = "insert_availability_fault" =>
              lastCall.outcome.error = "Failed to insert availability for"
        /\ lastCall.op = "query_fault" =>
              lastCall.outcome.error = "Query execution failed"
        /\ lastCall.op = "refresh_materialized_views_fault" =>
              lastCall.outcome.error = "Failed to refresh materialized views"

\* insert_batch raised for a batch of two records after its first row went
\* in, the error naming the batch size.
WitnessC23 ==
    /\ lastCall.op = "insert_batch_fault"
    /\ lastCall.stage = "executemany"
    /\ lastCall.given = <<2>>
    /\ lastCall.outcome.raised
    /\ daily_availability # {}

\* C37: when refresh_materialized_views has just run, on its own or as the
\* last statement of insert_batch, the dates of the aggregate rows are the
\* dates of the base rows, no two aggregate rows have the same date, and in
\* each row total_symbols = available_symbols + unavailable_symbols.
TheoremC37 ==
    lastCall.refreshes = 1 =>
       /\ {c.date : c \in daily_symbol_counts} = {x.date : x \in daily_availability}
       /\ \A c \in daily_symbol_counts : \A d \in daily_symbol_counts :
             c.date = d.date => c = d
       /\ \A c \in daily_symbol_counts :
             c.total_symbols = c.available_symbols + c.unavailable_symbols

\* A refresh has just run over a base table of more than one date, one of
\* them with no available row and one with rows of both kinds.
WitnessC37 ==
    /\ lastCall.op = "refresh_materialized_views"
    /\ lastCall.refreshes = 1
    /\ Cardinality({x.date : x \in daily_availability}) >= 2
    /\ \E c \in daily_symbol_counts : c.available_symbols = 0
    /\ \E c \in daily_symbol_counts : c.unavailable_symbols >= 1 /\ c.available_symbols >= 1

\* C33: a step that is a non-empty insert_batch returning leaves every
\* record of the batch (the last one per key) in the base table; on a store
\* opened with skip_materialized_refresh it ran no refresh and the aggregate
\* is as it was, otherwise it ran one refresh and the aggregate is the
\* refresh of the old aggregate over the base table as written.
TheoremC33 ==
    [][(lastCall'.op = "insert_batch" /\ lastCall'.wrote # {}) =>
          /\ lastCall'.wrote \subseteq daily_availability'
          /\ IF skip_materialized_refresh
             THEN /\ lastCall'.refreshes = 0
                  /\ daily_symbol_counts' = daily_symbol_counts
             ELSE /\ lastCall'.refreshes = 1
                  /\ daily_symbol_counts' =
                       RefreshMaterializedViews(daily_availability',
                                                daily_symbol_counts)]_vars

\* A store opened with skip_materialized_refresh took a batch: its base
\* table holds a date the aggregate has no row of.
WitnessC33 ==
    /\ skip_materialized_refresh
    /\ lastCall.op = "insert_batch"
    /\ lastCall.wrote # {}
    /\ \E x \in daily_availability :
          \A c \in daily_symbol_counts : c.date # x.date

\* C16 as stated, for the stores that refresh (opened without
\* skip_materialized_refresh): between calls, whichever write path was
\* taken, the aggregate table equals the GROUP BY date recomputation of the
\* base table.
OriginalC16 ==
    ~skip_materialized_refresh =>
        daily_symbol_counts = GroupByDate(daily_availability)

\* ------------------------------------------------------ enrichment claims
Enriched(x) == \A c \in VolumeKeys : Get(x, c) # NULL

Bare(x) == \A c \in VolumeKeys : Get(x, c) = NULL

InWindow(x) ==
    /\ x.date \in run.start_arg..run.end_date
    /\ x.symbol \in Range(run.symbols)

\* C32: once the daily update's insert_batch of a re-probed window has
\* returned, every row of the window holds the probe's values and NULL in
\* all nine volume columns, whatever the row held before the update.
TheoremC32 ==
    (pc = "done" /\ lastCall.op = "insert_batch") =>
        \A x \in daily_availability :
            InWindow(x) => (Bare(x) /\ x \in lastCall.wrote)

\* A lookback update has re-probed a window in which a row held all nine
\* volume columns.
WitnessC32 ==
    /\ pc = "done"
    /\ lastCall.op = "insert_batch"
    /\ run.path = "lookback"
    /\ \E x \in run.before[1] : InWindow(x) /\ Enriched(x)

\* The rows the last update_volume_metrics call addressed, before the call.
Addressed(x) == x.symbol = lastCall.symbol /\ x.date = lastCall.date

\* C38: after update_volume_metrics the table holds the same keys as
\* before; every row other than the addressed one is as it was; the
\* addressed row, if there was one, holds the nine values of volume_data and
\* its probe columns as before; the aggregate is untouched.
TheoremC38 ==
    lastCall.op = "update_volume_metrics" =>
        /\ {Key(x) : x \in daily_availability} = {Key(x) : x \in lastCall.before[1]}
        /\ Cardinality(daily_availability) = Cardinality(lastCall.before[1])
        /\ \A x \in lastCall.before[1] :
              IF Addressed(x)
              THEN \E y \in daily_availability :
                      /\ Key(y) = Key(x)
                      /\ \A k \in BaseKeys : y[k] = x[k]
                      /\ \A c \in VolumeKeys : Get(y, c) = lastCall.volume_data[c]
              ELSE x \in daily_availability
        /\ (~\E x \in lastCall.before[1] : Addressed(x)) =>
              daily_availability = lastCall.before[1]
        /\ daily_symbol_counts = lastCall.before[2]

\* update_volume_metrics filled the volume columns of a row that had none,
\* in a table that holds other rows.
WitnessC38 ==
    /\ lastCall.op = "update_volume_metrics"
    /\ \E x \in lastCall.before[1] : Addressed(x) /\ Bare(x)
    /\ \E x \in lastCall.before[1] : ~Addressed(x)

\* update_volume_metrics was called for a key that has no row.
NoRowAddressed ==
    /\ lastCall.op = "update_volume_metrics"
    /\ ~\E x \in lastCall.before[1] : Addressed(x)

\* ---------------------------------------------------------- schema claims
Tables(name) ==
    {k \in DOMAIN catalog : catalog[k].kind = "table" /\ catalog[k].name = name}

OriginalC29 ==
    (lastCall.op = "detect_symbol_gaps" /\ ~lastCall.raised) =>
        /\ lastCall.printed # <<>> => lastCall.exit = 0
        /\ lastCall.printed = <<>> => lastCall.exit = 1

\* ---------------------------------------------------------- prober claims
\* The calls of the prober that have ended, and their request's outcome.
Got404(f) == f.response.kind = "response" /\ f.response.status = 404

Got200(f) == f.response.kind = "response" /\ f.response.status = 200

\* C18: for a 404 response check_symbol_availability does not raise; it
\* returns available = FALSE, status_code = 404, no size, no last_modified,
\* and the symbol and date it was called with (the symbol not encoded).
TheoremC18 ==
    \A i \in DOMAIN futures :
        Got404(futures[i]) =>
            /\ ~futures[i].outcome.raised
            /\ LET r == futures[i].outcome.value[1]
               IN  /\ r.available = FALSE
                   /\ r.status_code = 404
                   /\ r.file_size_bytes = NULL
                   /\ r.last_modified = NULL
                   /\ r.symbol = futures[i].symbol
                   /\ r.date = futures[i].date

\* A 404 came back for a symbol whose URL form differs from the symbol.
WitnessC18 ==
    \E i \in DOMAIN futures :
        /\ Got404(futures[i])
        /\ Quote(futures[i].symbol) # CodePoints(futures[i].symbol)
        /\ ~futures[i].outcome.raised

\* The characters quote() leaves as they are, as RFC 3986 names them.
PlainChars == (65..90) \cup (97..122) \cup (48..57) \cup {45, 46, 95, 126}

HexValue(c) == IF c <= 57 THEN c - 48 ELSE c - 55

\* The bytes a percent-encoded text stands for.
RECURSIVE Unquote(_)
Unquote(text) ==
    IF text = <<>> THEN <<>>
    ELSE IF Head(text) = 37 /\ Len(text) >= 3
         THEN <<16 * HexValue(text[2]) + HexValue(text[3])>>
                 \o Unquote(SubSeq(text, 4, Len(text)))
    ELSE <<Head(text)>> \o Unquote(Tail(text))

Escapes(text) == {k \in DOMAIN text : text[k] = 37}

IsAscii(cps) == \A k \in DOMAIN cps : cps[k] < 128

\* The record a finished call returned, and the symbol part of its URL.
ReturnedRecord(f) == f.outcome.value[1]

TheoremC19 ==
    \A i \in DOMAIN futures :
        (~Got404(futures[i]) /\ ~Got200(futures[i])) =>
            /\ futures[i].outcome.raised
            /\ futures[i].outcome.value = <<>>
            /\ futures[i].requests = 1

\* A call ended on a timeout.
WitnessC19 ==
    \E i \in DOMAIN futures :
        /\ futures[i].response.kind = "timeout"
        /\ futures[i].outcome.raised
        /\ futures[i].requests = 1

\* C20 as stated: every record check_symbol_availability returns has
\* file_size_bytes and last_modified both non-null exactly when available,
\* and is available exactly when status_code = 200.
OriginalC20 ==
    \A i \in DOMAIN futures :
        ~futures[i].outcome.raised =>
            LET r == futures[i].outcome.value[1]
            IN  /\ r.available <=>
                      (r.file_size_bytes # NULL /\ r.last_modified # NULL)
                /\ r.available <=> r.status_code = 200

\* ---------------------------------------------------- batch prober claims
BatchOver == pc \in {"batch_raised", "batch_returned"}

\* The probe of future i raised.
ProbeRaised(i) == futures[i].state = "finished" /\ futures[i].outcome.raised

\* C8: probe_all_symbols raises exactly when some symbol's probe raised; the
\* error it raises lists every failing symbol with its message, once; and a
\* normal return carries one result per symbol.
TheoremC8 ==
    /\ pc = "batch_raised" =>
          /\ \E i \in InBatch(current_date) : ProbeRaised(i)
          /\ Range(failed) = {<<futures[i].symbol, futures[i].outcome.error>> :
                                i \in {j \in InBatch(current_date) : ProbeRaised(j)}}
          /\ Len(failed) = Cardinality({j \in InBatch(current_date) : ProbeRaised(j)})
    /\ pc = "batch_returned" =>
          /\ \A i \in InBatch(current_date) : ~ProbeRaised(i)
          /\ Len(results) = Len(symbols)

\* A batch raised for two failing symbols with different errors while a
\* third symbol's probe succeeded.
WitnessC8 ==
    /\ pc = "batch_raised"
    /\ Len(failed) = 2
    /\ failed[1][2] # failed[2][2]
    /\ Len(results) = 1

TimesCollected(symbol) ==
    Cardinality({k \in DOMAIN results : results[k].symbol = symbol})
        + Cardinality({k \in DOMAIN failed : failed[k][1] = symbol})

\* C9: in every interleaving each symbol of the list is probed exactly once,
\* no future finishes without having run, and when the call returns or
\* raises each symbol is in exactly one of results and failed.
TheoremC9 ==
    /\ \A i \in DOMAIN futures :
          /\ futures[i].calls <= 1
          /\ futures[i].state = "finished" => futures[i].calls = 1
    /\ BatchOver =>
          /\ Cardinality(InBatch(current_date)) = Len(symbols)
          /\ \A k \in DOMAIN symbols :
                /\ TimesCollected(symbols[k]) = 1
                /\ \E i \in InBatch(current_date) :
                      futures[i].symbol = symbols[k] /\ futures[i].calls = 1

\* A one-worker batch of three symbols in which a probe failed and the
\* probes queued behind it were still run and collected.
WitnessC9 ==
    /\ pc = "batch_raised"
    /\ max_workers = 1
    /\ Len(symbols) = 3
    /\ ProbeRaised(1)
    /\ Len(results) = 2

\* C26: at every moment of a probe_all_symbols call with max_workers = W, at
\* most W existence checks are in flight, whatever the number of symbols.
TheoremC26 == Cardinality(Running) <= max_workers

\* Every worker of the pool is in a check while another symbol's check is
\* still queued: the batch holds more symbols than the pool has workers.
WitnessC26 ==
    /\ Cardinality(Running) = max_workers
    /\ \E i \in DOMAIN futures : futures[i].state = "pending"
    /\ Len(symbols) > max_workers

\* ------------------------------------------------- date range claims
Ascending(dates) ==
    \A k \in 1..(Len(dates) - 1) : dates[k + 1] = dates[k] + 1

\* C10: probe_date_range enters the dates in strictly ascending order, and a
\* probe that is still queued or running always belongs to the date the loop
\* is at: no future of an earlier date is outstanding once a later date began.
TheoremC10 ==
    /\ Ascending(run.batches)
    /\ \A i \in DOMAIN futures :
          Outstanding(futures[i]) => futures[i].date = current_date
    /\ \A i \in DOMAIN futures : \A j \in DOMAIN futures :
          futures[i].date < futures[j].date => ~Outstanding(futures[i])

\* The second date of a range has a probe running in a worker.
WitnessC10 ==
    /\ Len(run.batches) >= 2
    /\ \E i \in Running : futures[i].date = run.batches[2]

\* A probe of the date has been queued, is running or has run.
ProbeStarted(date) == \E i \in DOMAIN futures : futures[i].date = date

InBatchStage == pc \in {"submit", "collect", "batch_returned", "batch_raised",
                        "range_raised"}

\* C11: in a probe_date_range call that was given a callback, the callback
\* has been invoked once for each date whose batch succeeded, in ascending
\* order: the dates it was invoked for are the dates entered so far, less
\* the date whose batch is under way or has failed; and no probe of a date
\* exists before the callback of every earlier date of the run was invoked,
\* nor is a probe of a date outstanding once its callback was invoked.
TheoremC11 ==
    run.callback =>
        /\ run.called = SubSeq(run.batches, 1, Len(run.called))
        /\ Ascending(run.called)
        /\ Len(run.called) =
              IF InBatchStage THEN Len(run.batches) - 1 ELSE Len(run.batches)
        /\ pc \in {"batch_raised", "range_raised"} =>
              \A k \in DOMAIN run.called : run.called[k] < current_date
        /\ \A k \in DOMAIN run.batches :
              (k > 1 /\ ProbeStarted(run.batches[k]))
                  => run.batches[k - 1] \in Range(run.called)
        /\ \A i \in DOMAIN futures :
              futures[i].date \in Range(run.called) => ~Outstanding(futures[i])

\* The batch of the third date failed after the callback was invoked for the
\* first two dates.
WitnessC11 ==
    /\ run.callback
    /\ pc = "range_raised"
    /\ Len(run.batches) = 3
    /\ Len(run.called) = 2

RecordsOf(date, symbol) ==
    {k \in DOMAIN all_results :
        all_results[k].date = date /\ all_results[k].symbol = symbol}

DaysOf(start, end) == IF end >= start THEN end - start + 1 ELSE 0

\* C30: when probe_date_range(start, end, symbols) has returned, it entered
\* one batch for each date of start..end and no other, each check of a batch
\* ran once, and the list it returns holds |dates| x |symbols| records, one
\* for each (date, symbol) pair; with start > end it entered no batch and
\* returns the empty list.
TheoremC30 ==
    (pc = "range_returned" /\ run.path = "probe_date_range") =>
        /\ run.batches =
              [k \in 1..DaysOf(run.start_arg, run.end_date) |-> run.start_arg + k - 1]
        /\ Len(all_results) = DaysOf(run.start_arg, run.end_date) * Len(run.symbols)
        /\ \A d \in run.start_arg..run.end_date : \A k \in DOMAIN run.symbols :
              Cardinality(RecordsOf(d, run.symbols[k])) = 1
        /\ \A i \in DOMAIN futures : futures[i].calls = 1
        /\ run.start_arg > run.end_date => (all_results = <<>> /\ futures = <<>>)

\* A range of several dates was probed and returned.
WitnessC30 ==
    /\ pc = "range_returned"
    /\ run.path = "probe_date_range"
    /\ run.end_date - run.start_arg >= 2
    /\ Len(all_results) = 3 * Len(run.symbols)

\* C31: when the batch of date N failed inside probe_date_range, the error
\* that leaves the call names date N and carries the batch error with its
\* failed symbols, N is the last date a batch was entered for, no check of a
\* later date exists, and the caller holds no result of any date.
TheoremC31 ==
    (run.path = "probe_date_range" /\ pc = "range_raised") =>
        /\ run.error.raised
        /\ run.error.date = current_date
        /\ run.error.cause = failed
        /\ failed # <<>>
        /\ run.batches =
              [k \in 1..(current_date - run.start_arg + 1) |-> run.start_arg + k - 1]
        /\ \A i \in DOMAIN futures : futures[i].date <= current_date
        /\ all_results = <<>>

\* The second date of a range failed after the first had succeeded, with
\* a later date still ahead.
WitnessC31 ==
    /\ run.path = "probe_date_range"
    /\ pc = "range_raised"
    /\ run.error.date = run.start_arg + 1
    /\ run.error.date < run.end_date

\* ------------------------------------------- worker-pool backfill claims
\* The tasks that have entered db.insert_batch and not returned from it.
InsertInProgress ==
    {i \in DOMAIN futures : futures[i].state \in {"insert_batch", "refresh"}}

\* C17 as stated: at most one insert_batch call is in progress against the
\* store at any time, the worker-pool backfill included.
OriginalC17 == Cardinality(InsertInProgress) <= 1

\* The tasks of the listing-based backfill that have returned a summary
\* without an error.
Succeeded ==
    {i \in DOMAIN futures :
        /\ futures[i].state = "finished"
        /\ ~futures[i].outcome.raised
        /\ futures[i].outcome.value[1].error = ""}

\* The rows of the base table for a symbol and a date.
RowsOf(symbol, d) ==
    {x \in daily_availability : x.symbol = symbol /\ x.date = d}

\* C39: in the listing-based backfill no finished backfill_symbol task has
\* raised; after a task that returned without an error the base table holds,
\* for its symbol, one row for each date of the range and none for any other
\* date, available exactly on the dates of the listing, and the summary
\* counts them; and once main has returned, it returned 1 exactly when some
\* task returned an error, with the rows of the others in place.
TheoremC39 ==
    run.path = "operations_backfill" =>
       /\ \A i \in DOMAIN futures :
             futures[i].state = "finished" => ~futures[i].outcome.raised
       /\ \A i \in Succeeded :
             /\ \A d \in Dates :
                   IF d \in run.start_date..run.end_date
                   THEN /\ Cardinality(RowsOf(futures[i].symbol, d)) = 1
                        /\ \A x \in RowsOf(futures[i].symbol, d) :
                              x.available <=>
                                 d \in Listing(futures[i].symbol, run.start_date,
                                               run.end_date)
                   ELSE RowsOf(futures[i].symbol, d) = {}
             /\ futures[i].outcome.value[1].total_dates =
                   run.end_date - run.start_date + 1
       /\ pc \in {"done", "failed"} =>
             /\ \A i \in DOMAIN futures : futures[i].state = "finished"
             /\ ExitCode(run) = (IF Succeeded = DOMAIN futures THEN 0 ELSE 1)

\* main has returned 1: one symbol failed in its insert after another had
\* returned, over a range where the two kinds of row both occur.
WitnessC39 ==
    /\ run.path = "operations_backfill"
    /\ pc = "failed"
    /\ Succeeded # {}
    /\ lastCall.op = "insert_batch_raised"
    /\ \E i \in Succeeded : \E d \in run.start_date..run.end_date :
          \E e \in run.start_date..run.end_date :
             /\ d \in Listing(futures[i].symbol, run.start_date, run.end_date)
             /\ e \notin Listing(futures[i].symbol, run.start_date, run.end_date)

\* ---------------------------------------------------- backfill claims
\* A run of run_backfill that asked to resume and loaded a checkpoint.
Resumed == run.path = "run_backfill" /\ run.resume /\ run.found # NULL

TheoremC36 ==
    Resumed =>
       /\ run.start_date = run.found + 1
       /\ run.found >= run.end_date =>
             /\ run.batches = <<>>
             /\ run.called = <<>>
             /\ pc \in {"date_loop", "range_returned", "clear", "done", "crashed"}
             /\ all_results = <<>>
             /\ pc \in {"clear", "done"} =>
                   /\ lastCall.op = "insert_batch"
                   /\ lastCall.wrote = {}
                   /\ lastCall.refreshes = 0
             /\ pc = "done" => (run.ended = "done" /\ checkpoint = NULL)

\* A resumed run whose checkpoint is at or past its end date, and more than
\* a day before the start date it was given, has returned.
WitnessC36 ==
    /\ Resumed
    /\ run.found >= run.end_date
    /\ run.found + 1 < run.start_arg
    /\ pc = "done"

HasRow(date, symbol) ==
    \E x \in daily_availability : Key(x) = <<date, symbol>>

Ingested(date) == \A k \in DOMAIN DiscoveredSymbols : HasRow(date, DiscoveredSymbols[k])

\* The run at hand resumed from the checkpoint an interrupted run left, over
\* that run's end date, and has completed.
ResumedAndCompleted ==
    /\ pc = "done"
    /\ run.resume
    /\ run.found # NULL
    /\ prior.interrupted
    /\ run.end_date = prior.end_date

\* C5 as stated: when a run over [start, end] is killed or fails after the
\* checkpoint for date D was written and before the next date's probe, and
\* the resumed run completes, the store holds records for every date of
\* [start, end], the dates up to D included.
OriginalC5 ==
    ResumedAndCompleted =>
        \A d \in prior.start_arg..prior.end_date : Ingested(d)

\* C6 as stated: while run_backfill runs, a checkpoint it has written holds a
\* date D such that D and every earlier date of the run are in the store.
OriginalC6 ==
    (pc \notin Stopped /\ run.saved /\ checkpoint # NULL) =>
        \A d \in run.start_date..checkpoint : Ingested(d)

\* C7: the first date run_backfill probes is the checkpointed date plus one
\* day when resume is requested and a checkpoint exists at the start, and
\* the caller's start_date otherwise.
TheoremC7 ==
    run.batches # <<>> =>
        Head(run.batches) =
            IF run.resume /\ run.found # NULL THEN run.found + 1
            ELSE run.start_arg

\* A resumed run probed first the day after the checkpoint, which is neither
\* the start date it was called with nor the checkpointed date.
WitnessC7 ==
    /\ run.resume
    /\ run.found # NULL
    /\ run.batches # <<>>
    /\ Head(run.batches) = run.found + 1
    /\ Head(run.batches) # run.start_arg

\* The dates of the run whose batch succeeded before a later batch failed.
SucceededEarlier == SubSeq(run.batches, 1, Len(run.batches) - 1)

\* C12 as stated: when the batch of a date fails in a multi-date run, the
\* records of the dates that had already succeeded in that run are in the
\* store once the run has ended in failure.
OriginalC12 ==
    (pc = "failed" /\ run.path \in {"run_backfill", "lookback"}) =>
        \A k \in DOMAIN SucceededEarlier : Ingested(SucceededEarlier[k])

\* The checkpoint file as the run's own saves left it: the last date the
\* callback was invoked for, or what the run found at its start.
LastGood ==
    IF run.called # <<>> THEN run.called[Len(run.called)] ELSE run.found

\* C14: when run_backfill has failed, on a probe failure or on a storage
\* failure, the error was re-raised and the checkpoint file holds the last
\* date whose batch succeeded in this run, or what it held before the run
\* when no batch succeeded: the failure path neither clears nor moves it.
TheoremC14 ==
    (pc = "failed" /\ run.path = "run_backfill") =>
        /\ run.ended = "failed"
        /\ checkpoint = LastGood
        /\ run.called # <<>> => checkpoint # NULL
        /\ (run.called = <<>> /\ run.batches # <<>>) => checkpoint = run.found

\* A resumed run whose two batches succeeded failed in insert_batch; the
\* checkpoint is the run's last date, past the one it resumed from.
WitnessC14 ==
    /\ pc = "failed"
    /\ run.path = "run_backfill"
    /\ run.at = "insert"
    /\ run.found # NULL
    /\ Len(run.called) = 2
    /\ checkpoint > run.found

\* C15: when run_backfill has returned normally the checkpoint file is
\* absent and the store holds every record the run probed, one per symbol
\* for every date from the (possibly resumed) start to the end; and while
\* the run has not yet got past insert_batch the checkpoint is not cleared.
TheoremC15 ==
    run.path = "run_backfill" =>
        /\ pc = "done" =>
              /\ checkpoint = NULL
              /\ Range(all_results) \subseteq daily_availability
              /\ \A d \in run.start_date..run.end_date :
                 \A k \in DOMAIN run.symbols :
                    \E x \in Range(all_results) : Key(x) = <<d, run.symbols[k]>>
        /\ pc = "clear" =>
              /\ lastCall.op = "insert_batch"
              /\ Range(all_results) \subseteq daily_availability
        /\ pc \notin (Stopped \cup {"clear"}) => checkpoint = LastGood

\* A resumed run probed and inserted two dates, saved its checkpoints and
\* returned with the checkpoint file removed.
WitnessC15 ==
    /\ pc = "done"
    /\ run.path = "run_backfill"
    /\ run.resume
    /\ run.found # NULL
    /\ Len(run.called) = 2
    /\ Len(all_results) = 2 * Len(run.symbols)

\* C24: a run_backfill call that asked to resume and found a checkpoint
\* file that does not parse has raised: it has probed no date, holds no
\* result, and the file is as it was found.
TheoremC24 ==
    (run.path = "run_backfill" /\ run.resume /\ run.found = Malformed) =>
        /\ pc = "failed"
        /\ run.ended = "failed"
        /\ run.at = "load_checkpoint"
        /\ run.batches = <<>>
        /\ all_results = <<>>
        /\ checkpoint = Malformed

\* A resume over several dates was refused on a torn checkpoint file.
WitnessC24 ==
    /\ pc = "failed"
    /\ run.path = "run_backfill"
    /\ run.resume
    /\ run.found = Malformed
    /\ run.start_arg < run.end_date

\* ------------------------------------------------- exit code claims
WasProbed(date) == \E k \in DOMAIN run.batches : run.batches[k] = date

\* C25 as stated: an entry point that hands 0 to the shell has fully probed
\* every date of the window it was asked for and the store holds the
\* records of each of them.
OriginalC25 ==
    ExitCode(run) = 0 =>
        \A d \in run.start_arg..run.end_date : WasProbed(d) /\ Ingested(d)

\* C34 as stated: a run of an orchestrator that returned or raised left no
\* store connection open, and after a returned run the rows its insert_batch
\* wrote are in the base table a store opened next reads.
OriginalC34 ==
    run.ended \in {"done", "failed"} =>
       /\ run.conn # "open"
       /\ (run.ended = "done" /\ lastCall.op = "insert_batch") =>
             lastCall.wrote \subseteq daily_availability

\* ------------------------------------------------- daily update claims
StoreNow == <<daily_availability, daily_symbol_counts>>

\* C13: when some symbol's probe fails in the batch of daily_update_job, of
\* run_manual_update or of the single-date daily-update script, the call
\* commits nothing: both tables are what they were before the call, for as
\* long as the failed call is the last one made.
TheoremC13 ==
    (run.path \in SingleDatePaths /\ failed # <<>>) => StoreNow = run.before

\* A single-date update failed on a store that held rows, one symbol's probe
\* having succeeded and the other's having raised.
WitnessC13 ==
    /\ pc = "failed"
    /\ run.path \in SingleDatePaths
    /\ results # <<>>
    /\ failed # <<>>
    /\ run.before[1] # {}

====
